---- MODULE Spec2Model ----
(***************************************************************************)
(* Chunked transcription dispatch and merge (scripts/transcribe-openai.ts, *)
(* with the same functions in scripts/transcription.ts).                   *)
(*                                                                         *)
(* Times are exact integers counted in ticks; TicksPerMs ticks make one    *)
(* millisecond, so that inputs finer than a millisecond exist and          *)
(* Number.toFixed(3) is a real rounding.  A formatted offset "12.345s" is  *)
(* the integer number of milliseconds it prints (12345).                   *)
(***************************************************************************)
EXTENDS Integers, Sequences, FiniteSets, TLC

VARIABLES
    pc,               \* position of main()
    chunkDurationMin, \* --chunk-duration <min>
    raw,              \* --raw
    duration,         \* getAudioDuration(audioPath), ticks
    chunkDurationSec, \* chunkDurationMin * 60, ticks
    stderrLines,      \* the lines the silence detector wrote to stderr
    silences,         \* detectSilences(audioPath)
    splitPoints,      \* findSplitPoints(...)
    planWindows,      \* history: window in which each split point was found
    chunks,           \* ChunkInfo[] built by splitAudio
    files,            \* chunk artifacts present in /tmp (by chunk path)
    exits,            \* history: how the extraction of each chunk ended
    responses,        \* what the service answered for each call so far
    promises,         \* transcriptionPromises: state and value of each
    completionOrder,  \* history: order in which the calls resolved
    results,          \* await Promise.all(...), then sorted by index
    mergeIdx,         \* position of the merge loop over results
    allWords,         \* allWords
    output,           \* what was written (file or stdout)
    stats,            \* history: how often each stage ran
    jobs,             \* the jobs run side by side on one machine
    tmp,              \* for these jobs: the writer of each chunk path in /tmp
    \* the RTZR client (transcribe.ts)
    now,              \* Date.now() / 1000, seconds
    cachedToken,      \* cachedToken: null, or the expire_at of the token held
    token,            \* const token of the running submit / poll
    deadline,         \* deadline of pollTranscription, seconds
    sent,             \* history: the last request sent to the service
    pollResult,       \* result: what the last poll answered
    error,            \* the error the client ended with, if any
    \* formatKoreanTxt (utils.ts)
    transcriptionWords, \* transcriptionWords
    shots,            \* result.shots; finalData.shots
    sceneIdx,         \* the loop's i: shots handled so far
    sceneWords,       \* history: getWordsForScene(...) of each shot handled
    groups,           \* history: groupWordsBySpeaker(sceneWords) of each
    sceneLines,       \* lines: one block per shot handled
    \* describe.ts
    batchSize,        \* --batch <n>, BATCH_SIZE by default
    batchStart,       \* the batch loop's i
    frameFiles,       \* the frame numbers that have a file in framesDir
    calls,            \* the describeShot call of each shot: where it is
    shotsWithDescriptions, \* shotsWithDescriptions
    describedJson,    \* the shots written to the output, once written
    \* getFrameSamples (describe.ts)
    startFrame,       \* startFrame
    endFrame,         \* endFrame
    interval,         \* interval
    frames            \* frames, once returned

mainVars == <<pc, chunkDurationMin, raw, duration, chunkDurationSec,
              stderrLines, silences, splitPoints, planWindows, chunks, files,
              exits, responses, promises, completionOrder, results, mergeIdx,
              allWords, output, stats>>

\* main's variables but its position
mainData == <<chunkDurationMin, raw, duration, chunkDurationSec,
              stderrLines, silences, splitPoints, planWindows, chunks, files,
              exits, responses, promises, completionOrder, results, mergeIdx,
              allWords, output, stats>>

rtzrVars == <<now, cachedToken, token, deadline, sent, pollResult, error>>

sceneVars == <<transcriptionWords, shots, sceneIdx, sceneWords, groups, sceneLines>>

describeVars == <<batchSize, batchStart, frameFiles, calls, shotsWithDescriptions, describedJson>>

sampleVars == <<startFrame, endFrame, interval, frames>>

\* What each of the other programs leaves alone.
notRtzr == <<mainData, jobs, tmp, sceneVars, describeVars, sampleVars>>
notScenes == <<mainData, jobs, tmp, rtzrVars, describeVars, sampleVars>>
notSamples == <<mainData, jobs, tmp, rtzrVars, sceneVars, describeVars>>
notDescribe == <<mainData, jobs, tmp, rtzrVars, transcriptionWords, sceneIdx,
                 sceneWords, groups, sceneLines, sampleVars>>

\* The variables of the other programs of the repository.
otherVars == <<rtzrVars, sceneVars, describeVars, sampleVars>>

vars == <<mainVars, jobs, tmp, otherVars>>

---------------------------------------------------------------------------
(* Bounds of the model *)

TicksPerMs == 2
MaxSilences == 2
MaxChunks == 3
MaxOffsets == 3

TicksPerSec == 1000 * TicksPerMs
Sec(n) == n * TicksPerSec

---------------------------------------------------------------------------
(* Number formatting *)

\* x.toFixed(3) of the exact value num/den ticks (num >= 0, den > 0): the
\* number of milliseconds printed; a tie takes the larger candidate.
toFixed3(num, den) ==
    (2 * num + den * TicksPerMs) \div (2 * den * TicksPerMs)

\* toMMSS(seconds): minutes, and the seconds part formatted to 3 decimals (ms).
toMMSS(num, den) ==
    LET minute == den * Sec(60)
        mins == num \div minute
        secs == num - mins * minute
    IN  [mins |-> mins, secs |-> toFixed3(secs, den)]

\* parseFloat of text that is no number: the duration probe of a source
\* ffprobe cannot read.  Every comparison with it is false.
NaN == 0 - 1

---------------------------------------------------------------------------
(* detectSilences *)

\* A line of the detector's output, by the markers written in it: whether
\* it holds "silence_start: <number>" and "silence_end: <number>", and the
\* numbers (in ticks; the detector writes a negative start for a silence
\* that begins before the first sample).
Line(hasStart, start, hasEnd, end) ==
    [hasStart |-> hasStart, start |-> start, hasEnd |-> hasEnd, end |-> end]
StartLine(t) == Line(TRUE, t, FALSE, 0)
EndLine(t) == Line(FALSE, 0, TRUE, t)
OtherLine == Line(FALSE, 0, FALSE, 0)

\* silences = [], currentStart = null
NoSilences == [silences |-> <<>>, isNull |-> TRUE, currentStart |-> 0]

\* line.match(/silence_start:\s*([\d.]+)/): the number has to begin with a
\* digit or a dot right after the blanks, so a marker whose number carries
\* a minus sign is no match.
startMatch(line) == line.hasStart /\ line.start >= 0

\* line.match(/silence_end:\s*([\d.]+)/)
endMatch(line) == line.hasEnd /\ line.end >= 0

\* The body of `for (const line of text.split("\n"))`.
ParseLine(st, line) ==
    IF startMatch(line)
    THEN [st EXCEPT !.isNull = FALSE, !.currentStart = line.start]
    ELSE IF endMatch(line) /\ ~st.isNull
    THEN [silences |-> Append(st.silences,
                              [start |-> st.currentStart, end |-> line.end]),
          isNull |-> TRUE, currentStart |-> 0]
    ELSE st

RECURSIVE ParseLines(_, _, _)
ParseLines(lines, i, st) ==
    IF i > Len(lines) THEN st
    ELSE ParseLines(lines, i + 1, ParseLine(st, lines[i]))

\* What is returned, were a start left open at the end of the stream
\* closed there.
ReturnSilencesClosingOpen(st) ==
    IF st.isNull THEN st.silences
    ELSE Append(st.silences, [start |-> st.currentStart, end |-> st.currentStart])

\* return silences
ReturnSilences(st) == st.silences

detectSilences(lines) == ReturnSilences(ParseLines(lines, 1, NoSilences))

\* The lines the detector writes for the silences it finds: a banner, then
\* a start line and an end line for each.
RECURSIVE LinesOf(_)
LinesOf(sil) ==
    IF sil = <<>> THEN <<OtherLine>>
    ELSE LinesOf(SubSeq(sil, 1, Len(sil) - 1))
         \o <<StartLine(sil[Len(sil)].start), EndLine(sil[Len(sil)].end)>>

---------------------------------------------------------------------------
(* findSplitPoints *)

Abs(x) == IF x < 0 THEN -x ELSE x

\* bestSilence = null, bestDistance = Infinity
NoBest == [found |-> FALSE, silence |-> [start |-> 0, end |-> 0],
           distance |-> 0, window |-> 0]

\* The body of `for (const s of silences)` for one silence.
ConsiderLastInWindow(best, s, target, window) ==
    IF s.start >= target - window /\ s.start <= target + window
    THEN [found |-> TRUE, silence |-> s,
          distance |-> Abs(s.start - target), window |-> window]
    ELSE best

\* ... were the window to reach only ahead of the target.
ConsiderAhead(best, s, target, window) ==
    IF s.start >= target /\ s.start <= target + window
    THEN LET distance == Abs(s.start - target)
         IN  IF ~best.found \/ distance < best.distance
             THEN [found |-> TRUE, silence |-> s,
                   distance |-> distance, window |-> window]
             ELSE best
    ELSE best

Consider(best, s, target, window) ==
    IF s.start >= target - window /\ s.start <= target + window
    THEN LET distance == Abs(s.start - target)
         IN  IF ~best.found \/ distance < best.distance
             THEN [found |-> TRUE, silence |-> s,
                   distance |-> distance, window |-> window]
             ELSE best
    ELSE best

\* for (const s of silences) { ... } from position i on.
RECURSIVE ScanSilences(_, _, _, _, _)
ScanSilences(sil, i, best, target, window) ==
    IF i > Len(sil) THEN best
    ELSE ScanSilences(sil, i + 1, Consider(best, sil[i], target, window),
                      target, window)

\* for (let window = 30; window <= 180 && !bestSilence; window += 30)
RECURSIVE WindowLoop(_, _, _, _)
WindowLoop(sil, best, target, window) ==
    IF window <= Sec(180) /\ ~best.found
    THEN WindowLoop(sil, ScanSilences(sil, 1, best, target, window),
                    target, window + Sec(30))
    ELSE best

BestSilence(sil, target) == WindowLoop(sil, NoBest, target, Sec(30))

\* The loop condition of `for (let target = chunkSec; target < totalDuration; ...)`
MoreTargetsInclusive(target, totalDuration) ==
    totalDuration # NaN /\ target <= totalDuration

MoreTargets(target, totalDuration) ==
    totalDuration # NaN /\ target < totalDuration

\* The target loop; pairs of (split point, window it was found in; 0: hard cut).
RECURSIVE TargetLoop(_, _, _, _, _)
TargetLoop(sil, totalDuration, chunkSec, target, acc) ==
    IF MoreTargets(target, totalDuration)
    THEN LET best == BestSilence(sil, target)
             pick == IF best.found
                     THEN [split |-> best.silence.start, window |-> best.window]
                     ELSE [split |-> target, window |-> 0]
         IN  TargetLoop(sil, totalDuration, chunkSec, target + chunkSec,
                        Append(acc, pick))
    ELSE acc

\* The target loop is entered and its step does not move the target
\* towards totalDuration: target < totalDuration stays true for ever, and
\* every iteration pushes one more offset.
LoopsForever(totalDuration, chunkSec) ==
    chunkSec <= 0 /\ MoreTargets(chunkSec, totalDuration)

\* Defined unless the loop runs for ever.
\* The list a call starts from, were `splits` kept from the call before
\* (previous: the list that call returned, <<>> if there was none).
InitialSplitsKept(previous) ==
    IF previous = <<>> THEN <<[split |-> 0, window |-> 0]>> ELSE previous

\* const splits: number[] = [0], whatever an earlier call returned.
InitialSplits(previous) == <<[split |-> 0, window |-> 0]>>

\* A call made after a call that returned `previous`.
PlanAfter(previous, sil, totalDuration, chunkSec) ==
    TargetLoop(sil, totalDuration, chunkSec, chunkSec, InitialSplits(previous))

PlanOf(sil, totalDuration, chunkSec) ==
    PlanAfter(<<>>, sil, totalDuration, chunkSec)

findSplitPoints(sil, totalDuration, chunkSec) ==
    LET plan == PlanOf(sil, totalDuration, chunkSec)
    IN  [i \in 1..Len(plan) |-> plan[i].split]

---------------------------------------------------------------------------
(* splitAudio *)

\* Chunk k (1-based position; the code's i is k - 1) ending where it starts
\* plus the target length instead of at the next split point.
ChunkAtFixedLength(sp, totalDuration, k) ==
    [path |-> k - 1, startOffset |-> sp[k],
     duration |-> (IF k < Len(sp) THEN sp[2] - sp[1]
                   ELSE IF totalDuration = NaN THEN NaN
                   ELSE totalDuration - sp[k])]

\* One iteration of the loop of splitAudio: the ChunkInfo pushed for
\* position k.  path stands for `/tmp/transcribe_chunk_${i}.wav`.
ChunkAt(sp, totalDuration, k) ==
    LET start == sp[k]
        end == IF k + 1 <= Len(sp) THEN sp[k + 1] ELSE totalDuration
    IN  [path |-> k - 1, startOffset |-> start,
         duration |-> (IF end = NaN THEN NaN ELSE end - start)]

---------------------------------------------------------------------------
(* extractWords *)

Whitespace == {" "}

RECURSIVE TrimLeft(_)
TrimLeft(t) ==
    IF t # <<>> /\ Head(t) \in Whitespace THEN TrimLeft(Tail(t)) ELSE t

RECURSIVE TrimRight(_)
TrimRight(t) ==
    IF t # <<>> /\ t[Len(t)] \in Whitespace
    THEN TrimRight(SubSeq(t, 1, Len(t) - 1))
    ELSE t

\* text.trim()
Trim(t) == TrimRight(TrimLeft(t))

\* t.split(/\s+/): the pieces between maximal runs of whitespace; the
\* empty text gives one empty piece.
RECURSIVE SplitWs(_, _, _, _)
SplitWs(t, i, cur, acc) ==
    IF i > Len(t) THEN Append(acc, cur)
    ELSE IF t[i] \in Whitespace
         THEN IF i > 1 /\ t[i - 1] \in Whitespace
              THEN SplitWs(t, i + 1, cur, acc)
              ELSE SplitWs(t, i + 1, <<>>, Append(acc, cur))
         ELSE SplitWs(t, i + 1, Append(cur, t[i]), acc)

\* segment.speaker.replace("speaker_", "")
StripSpeaker(speaker) ==
    CASE speaker = "speaker_0" -> "0"
      [] speaker = "speaker_1" -> "1"
      [] OTHER -> speaker

\* A TranscriptionWord whose span is [sNum/den, eNum/den] ticks.
MkWord(text, sNum, eNum, den, label) ==
    [word |-> text,
     startOffset |-> toFixed3(sNum, den),
     endOffset |-> toFixed3(eNum, den),
     startTime |-> toMMSS(sNum, den),
     endTime |-> toMMSS(eNum, den),
     speakerLabel |-> label]

\* The offset that extractWords adds to a chunk-local time.
AppliedOffsetNone(offsetSec) == 0

AppliedOffset(offsetSec) == offsetSec

\* The words branch, were the words with an empty text left out.
WordsBranchSkipEmpty(ws, offsetSec) ==
    LET kept == SelectSeq(ws, LAMBDA w : w.word # <<>>)
    IN  [i \in 1..Len(kept) |->
            MkWord(kept[i].word, kept[i].start + AppliedOffset(offsetSec),
                   kept[i].end + AppliedOffset(offsetSec), 1, "0")]

\* if (result.words) { for (const w of result.words) ... }
WordsBranch(ws, offsetSec) ==
    [i \in 1..Len(ws) |->
        MkWord(ws[i].word, ws[i].start + AppliedOffset(offsetSec),
               ws[i].end + AppliedOffset(offsetSec), 1, "0")]

\* The words of one segment, were each token given the whole span of the
\* segment.
SegmentWordsWholeSpan(segment, offsetSec) ==
    LET segmentWords == SplitWs(Trim(segment.text), 1, <<>>, <<>>)
        n == Len(segmentWords)
    IN  IF n = 0 \/ segmentWords[1] = <<>> THEN <<>>
        ELSE [k \in 1..n |->
                MkWord(segmentWords[k],
                       segment.start + AppliedOffset(offsetSec),
                       segment.end + AppliedOffset(offsetSec),
                       1, StripSpeaker(segment.speaker))]

\* ... and were the segments without text not skipped.
SegmentWordsNoGuard(segment, offsetSec) ==
    LET segmentWords == SplitWs(Trim(segment.text), 1, <<>>, <<>>)
        n == Len(segmentWords)
        dur == segment.end - segment.start
    IN  [k \in 1..n |->
            MkWord(segmentWords[k],
                   (segment.start + AppliedOffset(offsetSec)) * n + (k - 1) * dur,
                   (segment.start + AppliedOffset(offsetSec)) * n + k * dur,
                   n, StripSpeaker(segment.speaker))]

\* The words of one segment; none when the trimmed text is empty.
SegmentWords(segment, offsetSec) ==
    LET segmentWords == SplitWs(Trim(segment.text), 1, <<>>, <<>>)
        n == Len(segmentWords)
        dur == segment.end - segment.start
    IN  IF n = 0 \/ segmentWords[1] = <<>> THEN <<>>
        ELSE [k \in 1..n |->
                MkWord(segmentWords[k],
                       (segment.start + AppliedOffset(offsetSec)) * n + (k - 1) * dur,
                       (segment.start + AppliedOffset(offsetSec)) * n + k * dur,
                       n, StripSpeaker(segment.speaker))]

RECURSIVE SegmentsBranch(_, _, _)
SegmentsBranch(segs, i, offsetSec) ==
    IF i > Len(segs) THEN <<>>
    ELSE SegmentWords(segs[i], offsetSec) \o SegmentsBranch(segs, i + 1, offsetSec)

\* extractWords, were the words of the segments pushed after the words.
extractWordsMixed(result, offsetSec) ==
    (IF result.hasWords THEN WordsBranch(result.words, offsetSec) ELSE <<>>)
    \o (IF result.hasSegments THEN SegmentsBranch(result.segments, 1, offsetSec)
        ELSE <<>>)

\* A VerboseResponse: words and segments are optional fields.
extractWords(result, offsetSec) ==
    IF result.hasWords THEN WordsBranch(result.words, offsetSec)
    ELSE IF result.hasSegments THEN SegmentsBranch(result.segments, 1, offsetSec)
    ELSE <<>>

---------------------------------------------------------------------------
(* postprocessTranscript *)

\* "ga" stands for a Hangul syllable (U+AC00..U+D7AF).
Hangul == {"ga"}

containsKorean(text) == \E i \in 1..Len(text) : text[i] \in Hangul

\* The label "kyu" stands for the Hangul label the code assigns.
postprocessTranscript(words) ==
    [i \in 1..Len(words) |->
        [words[i] EXCEPT !.speakerLabel =
            IF containsKorean(words[i].word) THEN "kyu" ELSE @]]

---------------------------------------------------------------------------
(* Inputs: what the command line, the probe, the silence detector and the  *)
(* transcription service may supply                                        *)

\* Sequences without repetition over S, of length at most n.
SeqsUpTo(S, n) ==
    UNION {{q \in [1..k -> S] : \A i, j \in 1..k : i # j => q[i] # q[j]} : k \in 0..n}

\* Sequences over S of length 1..n.
NonEmptySeqs(S, n) == UNION {[1..k -> S] : k \in 1..n}

ChunkDurationMins == {-1, 0, 1, 10}
Durations == {NaN, Sec(60), Sec(170), Sec(600), Sec(700), Sec(1300)}

Silence(start) == [start |-> start, end |-> start + Sec(3)]
SilencePool == {Silence(Sec(100)), Silence(Sec(615) + 1), Silence(Sec(650)),
                Silence(Sec(1310))}

W(text, start, end) == [word |-> text, start |-> start, end |-> end]
WordsResult(ws) ==
    [hasWords |-> TRUE, words |-> ws, hasSegments |-> FALSE, segments |-> <<>>]
SegmentsResult(ss) ==
    [hasWords |-> FALSE, words |-> <<>>, hasSegments |-> TRUE, segments |-> ss]
NoResult ==
    [hasWords |-> FALSE, words |-> <<>>, hasSegments |-> FALSE, segments |-> <<>>]

\* Results the service may return for audio of the given length: words in
\* time order (one off the millisecond grid), words out of time order, a
\* diarized segment of three tokens, and words at both ends of the audio.
ResultsFor(len) ==
    { WordsResult(<<W(<<"a">>, Sec(1), Sec(1) + 1), W(<<"g", "a">>, Sec(2) + 1, Sec(3))>>),
      WordsResult(<<W(<<"b">>, Sec(5), Sec(6)), W(<<"a">>, Sec(2), Sec(3))>>),
      SegmentsResult(<<[speaker |-> "speaker_1",
                        text |-> <<"a", " ", "ga", " ", " ", "c">>,
                        start |-> 0, end |-> Sec(1)]>>),
      WordsResult(<<W(<<"x">>, 0, 0)>>
                  \o (IF len >= 0 THEN <<W(<<"y">>, len, len)>> ELSE <<>>)) }

Failure == [kind |-> "error", result |-> NoResult]
Pending == [kind |-> "none", result |-> NoResult]
ResponsesFor(len) == {[kind |-> "ok", result |-> r] : r \in ResultsFor(len)} \cup {Failure}

NoOutput == [kind |-> "none", result |-> NoResult, words |-> <<>>]
NoStats == [detect |-> 0, plan |-> 0, extract |-> 0, transcribe |-> 0]

---------------------------------------------------------------------------
(* main of transcribe-openai *)

\* The number of chunks the plan for (d, chunkSec) has, chunkSec > 0.
PlannedChunks(d, chunkSec) == 1 + (d - 1) \div chunkSec

IsSingleChunkStrict(d, chunkSec) == d # NaN /\ d < chunkSec

\* if (duration <= chunkDurationSec)
IsSingleChunk(d, chunkSec) == d # NaN /\ d <= chunkSec

\* The value a transcription promise settles with when the call throws,
\* were the error rethrown instead of swallowed.
OnErrorRethrow(k, chunk) ==
    [state |-> "rejected", value |-> [index |-> k - 1, words |-> <<>>, chunk |-> chunk]]

\* ... and were a placeholder word recorded for the failed chunk.
OnErrorPlaceholder(k, chunk) ==
    [state |-> "fulfilled",
     value |-> [index |-> k - 1,
                words |-> <<MkWord(<<>>, chunk.startOffset, chunk.startOffset, 1, "0")>>,
                chunk |-> chunk]]

\* ... and were the outcome of a failed call not to carry its index.
OnErrorNoIndex(k, chunk) ==
    [state |-> "fulfilled", value |-> [index |-> 0, words |-> <<>>, chunk |-> chunk]]

\* catch (err) { return { index: i, words: [], chunk } }
OnError(k, chunk) ==
    [state |-> "fulfilled", value |-> [index |-> k - 1, words |-> <<>>, chunk |-> chunk]]

\* The callback, were the chunk's start offset not passed to extractWords.
CallbackNoOffset(k, chunk, resp) ==
    IF resp.kind = "ok"
    THEN [state |-> "fulfilled",
          value |-> [index |-> k - 1,
                     words |-> extractWords(resp.result, 0),
                     chunk |-> chunk]]
    ELSE [state |-> "fulfilled",
          value |-> [index |-> k - 1, words |-> <<>>, chunk |-> chunk]]

\* The async callback of chunks.map for position k, given the answer.
Callback(k, chunk, resp) ==
    IF resp.kind = "ok"
    THEN [state |-> "fulfilled",
          value |-> [index |-> k - 1,
                     words |-> extractWords(resp.result, chunk.startOffset),
                     chunk |-> chunk]]
    ELSE OnError(k, chunk)

PendingPromise == [state |-> "pending",
                   value |-> [index |-> 0, words |-> <<>>,
                              chunk |-> [path |-> 0, startOffset |-> 0, duration |-> 0]]]

\* Insertion of r into a list sorted by descending index.
RECURSIVE InsertDescending(_, _)
InsertDescending(sorted, r) ==
    IF sorted = <<>> THEN <<r>>
    ELSE IF r.index > Head(sorted).index THEN <<r>> \o sorted
         ELSE <<Head(sorted)>> \o InsertDescending(Tail(sorted), r)

\* Insertion of r into a list sorted by index, after the equal ones (stable).
RECURSIVE InsertByIndex(_, _)
InsertByIndex(sorted, r) ==
    IF sorted = <<>> THEN <<r>>
    ELSE IF r.index < Head(sorted).index THEN <<r>> \o sorted
         ELSE <<Head(sorted)>> \o InsertByIndex(Tail(sorted), r)

RECURSIVE SortWith(_, _, _)
SortWith(rs, i, acc) ==
    IF i > Len(rs) THEN acc
    ELSE SortWith(rs, i + 1, InsertByIndex(acc, rs[i]))

RECURSIVE SortDescending(_, _)
SortDescending(rs, acc) ==
    IF rs = <<>> THEN acc
    ELSE SortDescending(Tail(rs), InsertDescending(acc, Head(rs)))

SortByIndexDescending(rs) == SortDescending(rs, <<>>)

\* results.sort((a, b) => a.index - b.index)
SortByIndex(rs) == SortWith(rs, 1, <<>>)

\* No token: cachedToken = null
NoToken == [isNull |-> TRUE, expire_at |-> 0]

\* No request sent yet; no poll answered yet.
NoRequest == [kind |-> "none", at |-> 0, expire_at |-> 0]
NoPoll == [status |-> "none"]

\* The RTZR client before it runs.
RtzrIdle ==
    /\ now = 0
    /\ cachedToken = NoToken
    /\ token = NoToken
    /\ deadline = 0
    /\ sent = NoRequest
    /\ pollResult = NoPoll
    /\ error = ""

\* formatKoreanTxt before it runs.
ScenesIdle ==
    /\ transcriptionWords = <<>>
    /\ shots = <<>>
    /\ sceneIdx = 0
    /\ sceneWords = <<>>
    /\ groups = <<>>
    /\ sceneLines = <<>>

\* describe before it runs.
DescribeIdle ==
    /\ batchSize = 0
    /\ batchStart = 0
    /\ frameFiles = {}
    /\ calls = <<>>
    /\ shotsWithDescriptions = <<>>
    /\ describedJson = <<>>

\* getFrameSamples before it runs.
SamplesIdle ==
    /\ startFrame = 0
    /\ endFrame = 0
    /\ interval = 1
    /\ frames = <<>>

\* The other programs before they run.
OtherIdle == RtzrIdle /\ ScenesIdle /\ DescribeIdle /\ SamplesIdle

Init ==
    /\ pc = "start"
    /\ chunkDurationMin \in ChunkDurationMins
    /\ jobs = <<>>
    /\ tmp = <<>>
    /\ OtherIdle
    /\ raw \in BOOLEAN
    /\ duration = 0
    /\ chunkDurationSec = 0
    /\ stderrLines = <<>>
    /\ silences = <<>>
    /\ splitPoints = <<>>
    /\ planWindows = <<>>
    /\ chunks = <<>>
    /\ files = {}
    /\ exits = <<>>
    /\ responses = <<>>
    /\ promises = <<>>
    /\ completionOrder = <<>>
    /\ results = <<>>
    /\ mergeIdx = 0
    /\ allWords = <<>>
    /\ output = NoOutput
    /\ stats = NoStats

\* getAudioDuration, chunkDurationSec and the choice of the path.
Probe ==
    /\ pc = "start"
    /\ \E d \in Durations :
         LET chunkSec == chunkDurationMin * Sec(60)
         IN  /\ d # NaN /\ chunkSec > 0 /\ ~IsSingleChunk(d, chunkSec)
                   => PlannedChunks(d, chunkSec) <= MaxChunks
             /\ duration' = d
             /\ chunkDurationSec' = chunkSec
             /\ pc' = IF IsSingleChunk(d, chunkSec) THEN "single" ELSE "detect"
    /\ UNCHANGED <<chunkDurationMin, raw, stderrLines, silences, splitPoints, planWindows,
                   chunks, files, exits, responses, promises, completionOrder,
                   results, mergeIdx, allWords, output, stats,
                   jobs, tmp, otherVars>>

\* Where main goes on when the single call throws, were the throw caught
\* and taken for an answer without words, as on the chunked path.
AfterSingleErrorTolerated == "post"

\* Where main goes on when the single call throws: nothing catches it
\* before main().catch, which logs and exits with code 1.
AfterSingleError == "aborted"

\* The single-chunk path: one call on the whole audio.  A throw ends main
\* in main().catch; with --raw the response is written and main returns.
TranscribeSingle ==
    /\ pc = "single"
    /\ \E resp \in ResponsesFor(duration) :
         /\ responses' = <<resp>>
         /\ IF resp.kind = "error"
            THEN /\ pc' = AfterSingleError
                 /\ UNCHANGED <<allWords, output>>
            ELSE IF raw
            THEN /\ pc' = "done"
                 /\ output' = [kind |-> "raw", result |-> resp.result, words |-> <<>>]
                 /\ UNCHANGED allWords
            ELSE /\ pc' = "post"
                 /\ allWords' = extractWords(resp.result, 0)
                 /\ UNCHANGED output
    /\ stats' = [stats EXCEPT !.transcribe = @ + 1]
    /\ UNCHANGED <<chunkDurationMin, raw, duration, chunkDurationSec, stderrLines, silences,
                   splitPoints, planWindows, chunks, files, exits, promises,
                   completionOrder, results, mergeIdx,
                   jobs, tmp, otherVars>>

\* detectSilences: the intervals parsed from the detector's output; it
\* reports none for a source it cannot read.
DetectSilences ==
    /\ pc = "detect"
    /\ \E found \in (IF duration = NaN THEN {<<>>}
                     ELSE SeqsUpTo(SilencePool, MaxSilences)) :
         /\ stderrLines' = LinesOf(found)
         /\ silences' = detectSilences(LinesOf(found))
    /\ pc' = "plan"
    /\ stats' = [stats EXCEPT !.detect = @ + 1]
    /\ UNCHANGED <<chunkDurationMin, raw, duration, chunkDurationSec,
                   splitPoints, planWindows, chunks, files, exits, responses, promises,
                   completionOrder, results, mergeIdx, allWords, output,
                   jobs, tmp, otherVars>>

\* findSplitPoints(silences, duration, chunkDurationSec); with a chunk
\* length that is not positive its loop never ends.
PlanSplits ==
    /\ pc = "plan"
    /\ IF ~LoopsForever(duration, chunkDurationSec)
       THEN LET plan == PlanOf(silences, duration, chunkDurationSec)
            IN  /\ splitPoints' = findSplitPoints(silences, duration, chunkDurationSec)
                /\ planWindows' = [i \in 1..Len(plan) |-> plan[i].window]
                /\ pc' = "split"
       ELSE /\ pc' = "diverged"
            /\ UNCHANGED <<splitPoints, planWindows>>
    /\ stats' = [stats EXCEPT !.plan = @ + 1]
    /\ UNCHANGED <<chunkDurationMin, raw, duration, chunkDurationSec, stderrLines, silences,
                   chunks, files, exits, responses, promises, completionOrder,
                   results, mergeIdx, allWords, output,
                   jobs, tmp, otherVars>>

\* splitAudio, were it to hand over the chunks once the first one exists.
SplitReturnedAfterFirst(cs, sp) == Len(cs) >= 1

\* ... and were its loop to stop one split point early.
SplitReturnedOneEarly(cs, sp) == Len(cs) >= Len(sp) - 1

\* for (let i = 0; i < splitPoints.length; i++) has ended: return chunks.
SplitReturned(cs, sp) == Len(cs) >= Len(sp)

\* How one run of the extraction tool may end: it writes the chunk file
\* and exits with 0, it exits with another code and writes nothing, or
\* Bun.spawn itself throws.  A source the probe could not read is not
\* extracted from either.
ExtractOutcomes(d) ==
    IF d = NaN THEN {"failed", "throw"} ELSE {"ok", "failed", "throw"}

\* One iteration of splitAudio: extract the next chunk to its file.  The
\* exit code behind `.exited` is not looked at, so the chunk is pushed
\* whether or not its file exists; a throw of Bun.spawn leaves splitAudio
\* and main and ends in main().catch.
ExtractChunk ==
    /\ pc = "split"
    /\ ~SplitReturned(chunks, splitPoints)
    /\ \E outcome \in ExtractOutcomes(duration) :
         LET chunk == ChunkAt(splitPoints, duration, Len(chunks) + 1)
         IN  IF outcome = "throw"
             THEN /\ pc' = "aborted"
                  /\ UNCHANGED <<chunks, files, exits>>
             ELSE /\ chunks' = Append(chunks, chunk)
                  /\ files' = IF outcome = "ok" THEN files \cup {chunk.path}
                              ELSE files
                  /\ exits' = Append(exits, outcome)
                  /\ UNCHANGED pc
    /\ stats' = [stats EXCEPT !.extract = @ + 1]
    /\ UNCHANGED <<chunkDurationMin, raw, duration, chunkDurationSec,
                   stderrLines, silences, splitPoints, planWindows, responses, promises,
                   completionOrder, results, mergeIdx, allWords, output,
                   jobs, tmp, otherVars>>

\* splitAudio returns; chunks.map starts every callback, each of which
\* issues its transcription call; main awaits Promise.all.
Dispatch ==
    /\ pc = "split"
    /\ SplitReturned(chunks, splitPoints)
    /\ promises' = [k \in 1..Len(chunks) |-> PendingPromise]
    /\ responses' = [k \in 1..Len(chunks) |-> Pending]
    /\ stats' = [stats EXCEPT !.transcribe = @ + Len(chunks)]
    /\ pc' = "await"
    /\ UNCHANGED <<chunkDurationMin, raw, duration, chunkDurationSec, stderrLines, silences,
                   splitPoints, planWindows, chunks, files, exits, completionOrder,
                   results, mergeIdx, allWords, output,
                   jobs, tmp, otherVars>>

\* What the call for a chunk may end with: any answer of the service, or
\* a throw; only a throw when the chunk file does not exist.
AnswersFor(chunk, fs) ==
    IF chunk.path \in fs THEN ResponsesFor(chunk.duration) ELSE {Failure}

\* The call of one chunk returns or throws, and its callback finishes.
Resolve ==
    /\ pc = "await"
    /\ \E k \in 1..Len(promises) :
         /\ promises[k].state = "pending"
         /\ \E resp \in AnswersFor(chunks[k], files) :
              /\ responses' = [responses EXCEPT ![k] = resp]
              /\ promises' = [promises EXCEPT ![k] = Callback(k, chunks[k], resp)]
         /\ completionOrder' = Append(completionOrder, k)
    /\ UNCHANGED <<pc, chunkDurationMin, raw, duration, chunkDurationSec,
                   stderrLines, silences, splitPoints, planWindows, chunks, files, exits, results,
                   mergeIdx, allWords, output, stats,
                   jobs, tmp, otherVars>>

AnyRejected == \E k \in 1..Len(promises) : promises[k].state = "rejected"
\* Promise.all, were it to settle with the first fulfilment.
AllFulfilledAny == \E k \in 1..Len(promises) : promises[k].state = "fulfilled"

\* ... and were it to settle once all promises but the last are fulfilled.
AllFulfilledButLast ==
    \A k \in 1..(Len(promises) - 1) : promises[k].state = "fulfilled"

AllFulfilled == \A k \in 1..Len(promises) : promises[k].state = "fulfilled"

\* await Promise.all(transcriptionPromises): rejects with the first
\* rejection, else yields the values in the order of the promises; then
\* results.sort.
Join ==
    /\ pc = "await"
    /\ AnyRejected \/ AllFulfilled
    /\ IF AnyRejected
       THEN /\ pc' = "aborted"
            /\ UNCHANGED <<results, mergeIdx>>
       ELSE /\ results' = SortByIndex([k \in 1..Len(promises) |-> promises[k].value])
            /\ mergeIdx' = 1
            /\ pc' = "merge"
    /\ UNCHANGED <<chunkDurationMin, raw, duration, chunkDurationSec, stderrLines, silences,
                   splitPoints, planWindows, chunks, files, exits, responses, promises,
                   completionOrder, allWords, output, stats,
                   jobs, tmp, otherVars>>

\* The files left by unlink, were the file of a chunk without words kept.
UnlinkAtSkipEmpty(fs, r) == IF r.words = <<>> THEN fs ELSE fs \ {r.chunk.path}

\* await unlink(r.chunk.path).catch(() => {})
UnlinkAt(fs, r) == fs \ {r.chunk.path}

\* One iteration of `for (const r of results)`: push the words, unlink the file.
MergeStep ==
    /\ pc = "merge"
    /\ mergeIdx <= Len(results)
    /\ allWords' = allWords \o results[mergeIdx].words
    /\ files' = UnlinkAt(files, results[mergeIdx])
    /\ mergeIdx' = mergeIdx + 1
    /\ pc' = IF mergeIdx = Len(results) THEN "post" ELSE "merge"
    /\ UNCHANGED <<chunkDurationMin, raw, duration, chunkDurationSec, stderrLines, silences,
                   splitPoints, planWindows, chunks, exits, responses, promises,
                   completionOrder, results, output, stats,
                   jobs, tmp, otherVars>>

\* postprocessTranscript(rawOutput) and the write of the transcript.
WriteOutput ==
    /\ pc = "post"
    /\ output' = [kind |-> "transcript", result |-> NoResult,
                  words |-> postprocessTranscript(allWords)]
    /\ pc' = "done"
    /\ UNCHANGED <<chunkDurationMin, raw, duration, chunkDurationSec, stderrLines, silences,
                   splitPoints, planWindows, chunks, files, exits, responses, promises,
                   completionOrder, results, mergeIdx, allWords, stats,
                   jobs, tmp, otherVars>>

Next ==
    \/ Probe
    \/ TranscribeSingle
    \/ DetectSilences
    \/ PlanSplits
    \/ ExtractChunk
    \/ Dispatch
    \/ Resolve
    \/ Join
    \/ MergeStep
    \/ WriteOutput

Spec == Init /\ [][Next]_vars

---------------------------------------------------------------------------
(* findSplitPoints on its own: main has chosen the chunked path and the    *)
(* detector has answered; the plan is computed for a wide range of inputs. *)

PlanChunkMins == {1, 6, 10}
PlanDurations == {Sec(170), Sec(800), Sec(1200), Sec(1300)}
PlanPool == {Silence(0), Silence(Sec(100)), Silence(Sec(540)), Silence(Sec(590)),
             Silence(Sec(610)),
             Silence(Sec(615)), Silence(Sec(650)), Silence(Sec(780)),
             Silence(Sec(781)), Silence(Sec(1310))}

InitPlan ==
    /\ pc = "plan"
    /\ chunkDurationMin \in PlanChunkMins
    /\ jobs = <<>>
    /\ tmp = <<>>
    /\ OtherIdle
    /\ raw = FALSE
    /\ duration \in PlanDurations
    /\ chunkDurationSec = chunkDurationMin * Sec(60)
    /\ ~IsSingleChunk(duration, chunkDurationSec)
    /\ silences \in SeqsUpTo(PlanPool, MaxSilences)
    /\ stderrLines = LinesOf(silences)
    /\ splitPoints = <<>>
    /\ planWindows = <<>>
    /\ chunks = <<>>
    /\ files = {}
    /\ exits = <<>>
    /\ responses = <<>>
    /\ promises = <<>>
    /\ completionOrder = <<>>
    /\ results = <<>>
    /\ mergeIdx = 0
    /\ allWords = <<>>
    /\ output = NoOutput
    /\ stats = [NoStats EXCEPT !.detect = 1]

SpecPlan == InitPlan /\ [][PlanSplits]_vars

---------------------------------------------------------------------------
(* findSplitPoints called again and again with the same arguments.         *)

MaxCalls == 3

\* A further call of findSplitPoints(silences, duration, chunkDurationSec),
\* after the call that returned the plan at hand.
PlanAgain ==
    /\ pc = "split"
    /\ stats.plan < MaxCalls
    /\ LET previous == [i \in 1..Len(splitPoints) |->
                          [split |-> splitPoints[i], window |-> planWindows[i]]]
           plan == PlanAfter(previous, silences, duration, chunkDurationSec)
       IN  /\ splitPoints' = [i \in 1..Len(plan) |-> plan[i].split]
           /\ planWindows' = [i \in 1..Len(plan) |-> plan[i].window]
    /\ stats' = [stats EXCEPT !.plan = @ + 1]
    /\ UNCHANGED <<pc, chunkDurationMin, raw, duration, chunkDurationSec,
                   stderrLines, silences, chunks, files, exits, responses,
                   promises, completionOrder, results, mergeIdx, allWords,
                   output,
                   jobs, tmp, otherVars>>

SpecReplan == InitPlan /\ [][PlanSplits \/ PlanAgain]_vars

---------------------------------------------------------------------------
(* splitAudio on its own, for arbitrary lists of offsets.                  *)

OffsetPool == {0, Sec(50), Sec(100), Sec(250)}
SplitDurations == {Sec(300), Sec(400)}

InitSplit ==
    /\ pc = "split"
    /\ chunkDurationMin = 10
    /\ jobs = <<>>
    /\ tmp = <<>>
    /\ OtherIdle
    /\ raw = FALSE
    /\ duration \in SplitDurations
    /\ chunkDurationSec = chunkDurationMin * Sec(60)
    /\ stderrLines = <<>>
    /\ silences = <<>>
    /\ splitPoints \in NonEmptySeqs(OffsetPool, MaxOffsets)
    /\ planWindows = <<>>
    /\ chunks = <<>>
    /\ files = {}
    /\ exits = <<>>
    /\ responses = <<>>
    /\ promises = <<>>
    /\ completionOrder = <<>>
    /\ results = <<>>
    /\ mergeIdx = 0
    /\ allWords = <<>>
    /\ output = NoOutput
    /\ stats = [NoStats EXCEPT !.detect = 1, !.plan = 1]

SpecSplit == InitSplit /\ [][ExtractChunk]_vars

---------------------------------------------------------------------------
(* extractWords on its own: one answer of the service for a chunk at some  *)
(* offset, normalised as the callback of main does.                        *)

MaxSegments == 2
MaxWords == 2

\* Sequences over S of length 0..n.
SeqsOver(S, n) == UNION {[1..k -> S] : k \in 0..n}

\* Texts of segments: empty, blank, one token, three tokens, and two
\* tokens with whitespace in front, doubled in between and behind.
SegmentTextPool == {<<>>, <<" ">>, <<" ", " ">>, <<"a">>,
                    <<"a", " ", "b", " ", "c">>,
                    <<" ", "a", " ", " ", "ga", " ">>}
\* Spans of segments: 3 s from 0, 1 s from 1 s, and an instant off the
\* millisecond grid.
SegmentSpanPool == {<<0, Sec(3)>>, <<Sec(1), Sec(2)>>, <<Sec(2) + 1, Sec(2) + 1>>}
SegmentPool ==
    {[speaker |-> "speaker_1", text |-> t, start |-> sp[1], end |-> sp[2]] :
        t \in SegmentTextPool, sp \in SegmentSpanPool}
WordPool == {W(<<"a">>, 0, Sec(1)), W(<<"g", "a">>, Sec(2) + 1, Sec(3)),
             W(<<>>, Sec(1), Sec(1)), W(<<"b">>, Sec(5), Sec(6))}
WordOffsets == {0, Sec(250), Sec(615) + 1}

\* Answers with segments only, with words only, with both and with
\* neither.
AnswerPool ==
    {NoResult} \cup
    {SegmentsResult(ss) : ss \in SeqsOver(SegmentPool, MaxSegments)}
    \cup {WordsResult(ws) : ws \in SeqsOver(WordPool, MaxWords)}
    \cup {[hasWords |-> TRUE, words |-> ws, hasSegments |-> TRUE,
           segments |-> <<[speaker |-> "speaker_1", text |-> <<"c">>,
                           start |-> 0, end |-> Sec(1)]>>] :
          ws \in SeqsOver(WordPool, MaxWords)}

InitWords ==
    /\ pc = "words"
    /\ chunkDurationMin = 10
    /\ jobs = <<>>
    /\ tmp = <<>>
    /\ OtherIdle
    /\ raw = FALSE
    /\ duration = Sec(700)
    /\ chunkDurationSec = chunkDurationMin * Sec(60)
    /\ stderrLines = <<>>
    /\ silences = <<>>
    /\ splitPoints = <<>>
    /\ planWindows = <<>>
    /\ \E o \in WordOffsets :
          chunks = <<[path |-> 0, startOffset |-> o, duration |-> Sec(10)]>>
    /\ files = {}
    /\ exits = <<>>
    /\ \E r \in AnswerPool : responses = <<[kind |-> "ok", result |-> r]>>
    /\ promises = <<>>
    /\ completionOrder = <<>>
    /\ results = <<>>
    /\ mergeIdx = 0
    /\ allWords = <<>>
    /\ output = NoOutput
    /\ stats = NoStats

\* const words = extractWords(result, chunk.startOffset)
ExtractWordsOfAnswer ==
    /\ pc = "words"
    /\ allWords' = extractWords(responses[1].result, chunks[1].startOffset)
    /\ pc' = "extracted"
    /\ UNCHANGED <<chunkDurationMin, raw, duration, chunkDurationSec, stderrLines, silences,
                   splitPoints, planWindows, chunks, files, exits, responses,
                   promises, completionOrder, results, mergeIdx, output, stats,
                   jobs, tmp, otherVars>>

SpecWords == InitWords /\ [][ExtractWordsOfAnswer]_vars

---------------------------------------------------------------------------
(* detectSilences on its own, for arbitrary streams of lines.              *)

MaxLines == 4

LinePool == {StartLine(Sec(100)), StartLine(Sec(615) + 1), EndLine(Sec(103)),
             EndLine(Sec(650)), Line(TRUE, Sec(200), TRUE, Sec(203)), OtherLine,
             StartLine(0 - 27)}

InitParse ==
    /\ pc = "parse"
    /\ chunkDurationMin = 10
    /\ jobs = <<>>
    /\ tmp = <<>>
    /\ OtherIdle
    /\ raw = FALSE
    /\ duration = Sec(700)
    /\ chunkDurationSec = chunkDurationMin * Sec(60)
    /\ stderrLines \in SeqsOver(LinePool, MaxLines)
    /\ silences = <<>>
    /\ splitPoints = <<>>
    /\ planWindows = <<>>
    /\ chunks = <<>>
    /\ files = {}
    /\ exits = <<>>
    /\ responses = <<>>
    /\ promises = <<>>
    /\ completionOrder = <<>>
    /\ results = <<>>
    /\ mergeIdx = 0
    /\ allWords = <<>>
    /\ output = NoOutput
    /\ stats = NoStats

\* The loop of detectSilences over the lines, and its return.
ParseStderr ==
    /\ pc = "parse"
    /\ silences' = detectSilences(stderrLines)
    /\ pc' = "parsed"
    /\ stats' = [stats EXCEPT !.detect = @ + 1]
    /\ UNCHANGED <<chunkDurationMin, raw, duration, chunkDurationSec,
                   stderrLines, splitPoints, planWindows, chunks, files, exits,
                   responses, promises, completionOrder, results, mergeIdx,
                   allWords, output,
                   jobs, tmp, otherVars>>

SpecParse == InitParse /\ [][ParseStderr]_vars

---------------------------------------------------------------------------
(* Properties of the split plan (SpecPlan)                                 *)

Planned == pc = "split" /\ Len(splitPoints) > 0

\* The checkpoint of position k of the plan (k >= 2).
Checkpoint(k) == (k - 1) * chunkDurationSec

Windows == {Sec(30 * j) : j \in 1..6}

\* The silence starts inside the closed window of half-width w around c.
StartsWithin(c, w) ==
    {silences[i].start : i \in {j \in 1..Len(silences) :
                                  Abs(silences[j].start - c) <= w}}

StrictlyIncreasing(sp) == \A i \in 1..(Len(sp) - 1) : sp[i] < sp[i + 1]

\* Split points never decrease (they may repeat), whatever the chunk length:
\* what the order of the merged words rests on.
PlanNonDecreasing ==
    Planned => \A i \in 1..(Len(splitPoints) - 1) : splitPoints[i] <= splitPoints[i + 1]

\* C4: the offsets returned by findSplitPoints start with 0 and are
\* strictly increasing, for every silence list, duration and positive
\* target chunk length, so that no chunk has zero or negative length.
C4_StrictlyIncreasingPlan ==
    Len(splitPoints) > 0 =>
        /\ splitPoints[1] = 0
        /\ StrictlyIncreasing(splitPoints)
        /\ \A k \in 1..Len(chunks) : chunks[k].duration > 0

\* C8: for each checkpoint the windows of 30, 60, ..., 180 s are tried in
\* that order with inclusive bounds, the search stops at the first window
\* holding a silence start, and the start nearest to the checkpoint among
\* those of that window is returned (a lone 615 for checkpoint 600 is found
\* at window 30, a lone 650 at window 60).
C8_FirstWindowNearest ==
    Planned =>
        /\ \A k \in 2..Len(splitPoints) :
             LET c == Checkpoint(k)
                 hit == {w \in Windows : StartsWithin(c, w) # {}}
             IN  hit # {} =>
                   LET first == CHOOSE w \in hit : \A v \in hit : w <= v
                   IN  /\ planWindows[k] = first
                       /\ splitPoints[k] \in StartsWithin(c, first)
                       /\ \A s \in StartsWithin(c, first) :
                            Abs(splitPoints[k] - c) <= Abs(s - c)
        /\ chunkDurationSec = Sec(600) /\ silences = <<Silence(Sec(615))>>
             => splitPoints[2] = Sec(615) /\ planWindows[2] = Sec(30)
        /\ chunkDurationSec = Sec(600) /\ silences = <<Silence(Sec(650))>>
             => splitPoints[2] = Sec(650) /\ planWindows[2] = Sec(60)

\* Two silence starts lie in the first window of checkpoint 600 and the
\* nearer one, listed second, has been chosen.
C8_Witness ==
    /\ Planned
    /\ chunkDurationSec = Sec(600)
    /\ silences = <<Silence(Sec(615)), Silence(Sec(610))>>
    /\ splitPoints[2] = Sec(610)
    /\ planWindows[2] = Sec(30)

\* C9: a checkpoint with no silence start within 180 s of it is returned
\* itself; with no silence at all the plan is 0, T, 2T, ... holding exactly
\* the multiples of the target T that are below the total duration.
C9_HardCutFallback ==
    Planned =>
        /\ \A k \in 2..Len(splitPoints) :
             StartsWithin(Checkpoint(k), Sec(180)) = {}
                => splitPoints[k] = Checkpoint(k) /\ planWindows[k] = 0
        /\ Len(splitPoints) =
             1 + Cardinality({j \in 1..(duration \div chunkDurationSec) :
                                j * chunkDurationSec < duration})
        /\ silences = <<>> =>
             \A k \in 1..Len(splitPoints) : splitPoints[k] = (k - 1) * chunkDurationSec

\* No silence at all and a duration that is a multiple of the target: the
\* plan stops below the duration.
C9_Witness ==
    /\ Planned
    /\ silences = <<>>
    /\ chunkDurationSec = Sec(600)
    /\ duration = Sec(1200)
    /\ splitPoints = <<0, Sec(600)>>

---------------------------------------------------------------------------
(* Properties of splitAudio (SpecSplit)                                    *)

RECURSIVE SumDurations(_, _)
SumDurations(cs, k) ==
    IF k > Len(cs) THEN 0 ELSE cs[k].duration + SumDurations(cs, k + 1)

ChunkEnd(c) == c.startOffset + c.duration

\* C7: splitAudio makes one chunk per offset, in index order, chunk i
\* running from offset i to offset i+1 and the last one to the total
\* duration; consecutive chunks abut, and when the first offset is 0 the
\* durations add up to the total duration.
C7_ExtractionCoverage ==
    pc = "split" =>
        /\ Len(chunks) <= Len(splitPoints)
        /\ \A k \in 1..Len(chunks) :
             /\ chunks[k].path = k - 1
             /\ chunks[k].startOffset = splitPoints[k]
             /\ k < Len(splitPoints) => ChunkEnd(chunks[k]) = splitPoints[k + 1]
             /\ k = Len(splitPoints) => ChunkEnd(chunks[k]) = duration
             /\ k < Len(chunks) => ChunkEnd(chunks[k]) = chunks[k + 1].startOffset
        /\ Len(chunks) = Len(splitPoints) /\ splitPoints[1] = 0
             => SumDurations(chunks, 1) = duration
        /\ Len(chunks) = 3 /\ splitPoints = <<0, Sec(100), Sec(250)>> /\ duration = Sec(300)
             => /\ chunks[1].duration = Sec(100)
                /\ chunks[2].duration = Sec(150)
                /\ chunks[3].duration = Sec(50)

\* Offsets 0, 100, 250 of an audio of 300 s have been extracted completely.
C7_Witness ==
    /\ pc = "split"
    /\ splitPoints = <<0, Sec(100), Sec(250)>>
    /\ duration = Sec(300)
    /\ Len(chunks) = 3
    /\ files = {0, 1, 2}

---------------------------------------------------------------------------
(* Properties of the job (Spec)                                            *)

Chunked == stats.detect > 0
Dispatched == Chunked /\ pc \in {"await", "merge", "post", "done", "aborted"}
Merged == Chunked /\ pc \in {"post", "done"}
Ok(k) == responses[k].kind = "ok"
Failed == {k \in 1..Len(responses) : responses[k].kind = "error"}

\* The non-empty maximal runs of non-whitespace characters of a text.
TokensOf(text) == SelectSeq(SplitWs(Trim(text), 1, <<>>, <<>>), LAMBDA t : t # <<>>)

RECURSIVE SegmentTexts(_, _)
SegmentTexts(segs, i) ==
    IF i > Len(segs) THEN <<>>
    ELSE TokensOf(segs[i].text) \o SegmentTexts(segs, i + 1)

\* The texts a result holds, in the order the service returned them.
ReturnedTexts(result) ==
    IF result.hasWords THEN [i \in 1..Len(result.words) |-> result.words[i].word]
    ELSE IF result.hasSegments THEN SegmentTexts(result.segments, 1)
    ELSE <<>>

\* The exact chunk-local span of each word of a result, as fractions of
\* ticks: [s / den, e / den].
RECURSIVE SegmentSpans(_, _)
SegmentSpans(segs, i) ==
    IF i > Len(segs) THEN <<>>
    ELSE LET n == Len(TokensOf(segs[i].text))
             dur == segs[i].end - segs[i].start
         IN  [k \in 1..n |-> [s |-> segs[i].start * n + (k - 1) * dur,
                              e |-> segs[i].start * n + k * dur,
                              den |-> n]]
             \o SegmentSpans(segs, i + 1)

LocalSpans(result) ==
    IF result.hasWords
    THEN [i \in 1..Len(result.words) |->
            [s |-> result.words[i].start, e |-> result.words[i].end, den |-> 1]]
    ELSE IF result.hasSegments THEN SegmentSpans(result.segments, 1)
    ELSE <<>>

RECURSIVE ConcatOutcomes(_)
ConcatOutcomes(k) ==
    IF k > Len(promises) THEN <<>>
    ELSE promises[k].value.words \o ConcatOutcomes(k + 1)

\* C1: whatever the order in which the calls complete, the final word list
\* is the concatenation of the chunks' word lists by increasing chunk index,
\* and inside a chunk the words keep the order in which they were returned
\* (they are not sorted by time).
C1_MergeInIndexOrder ==
    Merged =>
        /\ \A k \in 1..Len(results) : results[k].index = k - 1
        /\ \A k \in 1..Len(promises) : promises[k].value.index = k - 1
        /\ allWords = ConcatOutcomes(1)
        /\ \A k \in 1..Len(promises) :
             Ok(k) => [i \in 1..Len(promises[k].value.words) |->
                          promises[k].value.words[i].word]
                      = ReturnedTexts(responses[k].result)

\* The last chunk resolved first, every call succeeded, and the first
\* chunk's words came back out of time order.
C1_Witness ==
    /\ Merged
    /\ pc = "done"
    /\ completionOrder = <<3, 1, 2>>
    /\ \A k \in 1..3 : Ok(k)
    /\ responses[1].result.hasWords
    /\ Len(responses[1].result.words) = 2
    /\ responses[1].result.words[1].start > responses[1].result.words[2].start
    /\ responses[3].result.hasSegments
    /\ Len(allWords) >= 5

RECURSIVE ConcatSurvivors(_)
ConcatSurvivors(k) ==
    IF k > Len(responses) THEN <<>>
    ELSE (IF k \in Failed THEN <<>>
          ELSE extractWords(responses[k].result, chunks[k].startOffset))
         \o ConcatSurvivors(k + 1)

RECURSIVE CountSurvivors(_)
CountSurvivors(k) ==
    IF k > Len(responses) THEN 0
    ELSE (IF k \in Failed THEN 0 ELSE Len(ReturnedTexts(responses[k].result)))
         + CountSurvivors(k + 1)

\* C2: when the calls of a set F of chunks fail, the final word list is the
\* concatenation by index of the words of the chunks outside F: a failed
\* chunk adds no word, not even a placeholder, and the others are complete.
C2_FailedChunksAddNothing ==
    Merged =>
        /\ allWords = ConcatSurvivors(1)
        /\ Len(allWords) = CountSurvivors(1)
        /\ \A i \in 1..Len(allWords) : allWords[i].word # <<>>

\* The middle chunk of three failed and the other two returned words.
C2_Witness ==
    /\ Merged
    /\ Len(chunks) = 3
    /\ Failed = {2}
    /\ responses[1].result.hasWords
    /\ responses[3].result.hasSegments
    /\ Len(allWords) = 5

\* C3: a failed transcription call never aborts the chunked job: its
\* promise is fulfilled with an outcome without words and with its index,
\* the joint wait does not reject, and a finished job has written the
\* transcript.
C3_FailureNeverAborts ==
    Dispatched =>
        /\ \A k \in Failed :
             /\ promises[k].state = "fulfilled"
             /\ promises[k].value.words = <<>>
             /\ promises[k].value.index = k - 1
        /\ Failed # {} => pc # "aborted"
        /\ pc = "done" => output.kind = "transcript"

\* Every call failed and the job has written an empty transcript.
C3_Witness ==
    /\ Chunked
    /\ pc = "done"
    /\ Len(chunks) = 3
    /\ Failed = {1, 2, 3}
    /\ output.kind = "transcript"
    /\ output.words = <<>>

\* The chunk-local word starts of a result are in time order and within
\* [0, len].
LocalOrdered(result, len) ==
    LET ls == LocalSpans(result)
    IN  \A i \in 1..Len(ls) :
          /\ ls[i].s >= 0
          /\ ls[i].s <= len * ls[i].den
          /\ i < Len(ls) => ls[i].s * ls[i + 1].den <= ls[i + 1].s * ls[i].den

\* C5: if every chunk's words are returned in time order and within the
\* chunk, the merged word sequence has non-decreasing start offsets, also
\* across chunk boundaries, for every silence list, duration and positive
\* target chunk length.
C5_MergedStartsNonDecreasing ==
    (Merged /\ \A k \in 1..Len(chunks) :
                 Ok(k) => LocalOrdered(responses[k].result, chunks[k].duration))
    => \A i \in 1..(Len(allWords) - 1) :
         allWords[i].startOffset <= allWords[i + 1].startOffset

\* Three chunks whose words sit at both ends of each chunk, so that the
\* last word of a chunk and the first of the next one meet at the boundary.
C5_Witness ==
    /\ Merged
    /\ Len(chunks) = 3
    /\ \A k \in 1..3 :
         /\ Ok(k)
         /\ LocalOrdered(responses[k].result, chunks[k].duration)
         /\ Len(promises[k].value.words) = 2
    /\ allWords[2].startOffset = allWords[3].startOffset
    /\ allWords[4].startOffset = allWords[5].startOffset
    /\ allWords[1].startOffset < allWords[6].startOffset

\* The printed milliseconds ms are exactly the time x / den ticks.
ExactMs(ms, x, den) == ms * TicksPerMs * den = x

\* The printed milliseconds ms are the time x / den ticks rounded to the
\* nearest millisecond (a tie goes up).
NearestMs(ms, x, den) ==
    /\ 2 * ms * TicksPerMs * den - TicksPerMs * den <= 2 * x
    /\ 2 * x < 2 * ms * TicksPerMs * den + TicksPerMs * den

\* Each word made from a result is its local span moved by the offset,
\* compared by Same.
OffsetApplied(words, result, offsetSec, Same(_, _, _)) ==
    LET ls == LocalSpans(result)
    IN  /\ Len(words) = Len(ls)
        /\ \A j \in 1..Len(ls) :
             /\ Same(words[j].startOffset, ls[j].s + offsetSec * ls[j].den, ls[j].den)
             /\ Same(words[j].endOffset, ls[j].e + offsetSec * ls[j].den, ls[j].den)

OffsetAppliedEverywhere(Same(_, _, _)) ==
    /\ Dispatched =>
         \A k \in 1..Len(promises) :
            promises[k].state = "fulfilled" /\ Ok(k) =>
               OffsetApplied(promises[k].value.words, responses[k].result,
                             chunks[k].startOffset, Same)
    /\ ~Chunked /\ pc \in {"post", "done"} /\ ~raw =>
         OffsetApplied(allWords, responses[1].result, 0, Same)

\* C6 as stated: the start and end of every merged word equal the
\* chunk-local start and end plus the start offset of its chunk (0 on the
\* short-audio path).
C6_OffsetExact == OffsetAppliedEverywhere(ExactMs)

\* C6, amended: the start and end of every merged word are the chunk-local
\* start and end plus the start offset of its chunk (0 on the short-audio
\* path), rounded to the nearest millisecond as the three printed decimals;
\* offset 250 and a word at [2.0, 2.5] give [252.000, 252.500].
C6_OffsetRounded ==
    /\ OffsetAppliedEverywhere(NearestMs)
    /\ LET ws == extractWords(WordsResult(<<W(<<"a">>, Sec(2), Sec(2) + 500 * TicksPerMs)>>),
                              Sec(250))
       IN  ws[1].startOffset = 252000 /\ ws[1].endOffset = 252500

\* A chunk that does not start at 0 returned a diarized segment whose words
\* fall between milliseconds, and another one returned timed words.
C6_Witness ==
    /\ Merged
    /\ Len(chunks) = 3
    /\ chunks[2].startOffset > 0
    /\ Ok(2) /\ responses[2].result.hasSegments
    /\ Len(promises[2].value.words) = 3
    /\ ~ExactMs(promises[2].value.words[2].startOffset,
                LocalSpans(responses[2].result)[2].s + chunks[2].startOffset * 3, 3)
    /\ Ok(3) /\ responses[3].result.hasWords
    /\ Len(promises[3].value.words) = 2

\* C10: with a duration up to the target chunk length, equality included,
\* the job detects no silence, plans no split, extracts no chunk and issues
\* exactly one transcription call, on the whole audio; with a longer
\* duration it takes the chunked path.
C10_ShortAudioBypass ==
    pc # "start" =>
        IF duration # NaN /\ duration <= chunkDurationSec
        THEN /\ stats.detect = 0 /\ stats.plan = 0 /\ stats.extract = 0
             /\ chunks = <<>> /\ files = {} /\ promises = <<>>
             /\ stats.transcribe = (IF pc = "single" THEN 0 ELSE 1)
             /\ pc \in {"single", "post", "done", "aborted"}
        ELSE /\ pc \in {"detect", "plan", "split", "await", "merge", "post",
                        "done", "diverged", "aborted"}
             /\ stats.detect = (IF pc = "detect" THEN 0 ELSE 1)
             /\ pc \in {"await", "merge", "post", "done"}
                  => stats.transcribe = Len(chunks) /\ stats.extract = Len(chunks)

\* An audio exactly as long as the target chunk length was transcribed by
\* one call and written.
C10_Witness ==
    /\ pc = "done"
    /\ duration = chunkDurationSec
    /\ stats = [NoStats EXCEPT !.transcribe = 1]
    /\ output.kind = "transcript"
    /\ Len(output.words) > 0

MergeBegun == Chunked /\ pc \in {"merge", "post", "done"}

\* The outcome the join holds for the call of chunk k.
OutcomesOf(k) == {i \in 1..Len(results) : results[i].index = k - 1}

\* C11: the merge begins only after every one of the N calls has returned
\* or failed; a call that failed did not cancel, skip or discard a sibling
\* that was still in flight: each sibling has answered and the words of its
\* answer are in the joined results and, after the merge, in the word list.
C11_JoinAwaitsEveryCall ==
    /\ MergeBegun =>
         /\ Len(promises) = Len(chunks)
         /\ \A k \in 1..Len(chunks) :
              /\ promises[k].state = "fulfilled"
              /\ responses[k].kind \in {"ok", "error"}
              /\ \E p \in 1..Len(completionOrder) : completionOrder[p] = k
              /\ Ok(k) =>
                   \E i \in OutcomesOf(k) :
                      results[i].words =
                         extractWords(responses[k].result, chunks[k].startOffset)
    /\ Merged => allWords = ConcatSurvivors(1)

\* Three calls: the first to complete failed while the two others were in
\* flight; both returned later and their words were written.
C11_Witness ==
    /\ pc = "done"
    /\ Len(chunks) = 3
    /\ completionOrder = <<1, 3, 2>>
    /\ responses[1].kind = "error"
    /\ Ok(2) /\ Ok(3)
    /\ Len(promises[2].value.words) = 2
    /\ Len(promises[3].value.words) = 3
    /\ Len(output.words) = 5

\* The positions of the chunks whose extraction ended with a non-zero exit
\* and no file.
ExtractionFailed == {k \in 1..Len(exits) : exits[k] = "failed"}

\* C12: when the extraction tool fails for a chunk of a source the probe
\* could read, the job aborts and writes no output, and no outcome without
\* words stands in for the chunk.
C12_ExtractionFailureAborts ==
    duration # NaN =>
       \A k \in ExtractionFailed :
          /\ pc \notin {"merge", "post", "done"}
          /\ output.kind = "none"
          /\ k <= Len(promises) => promises[k].state # "fulfilled"

JobEnded == pc \in {"done", "aborted"}

\* C13: when the job has ended, with success or with an error, no chunk
\* file is left.
C13_NoArtifactLeft == JobEnded => files = {}

\* The call for chunk k has been issued and has not resolved.
InFlight(k) == k <= Len(promises) /\ promises[k].state = "pending"

\* C14: the file of a chunk is there until the call for the chunk has
\* resolved, and once the merge is over it is gone, whether the call
\* returned or failed.
C14_UnlinkAfterOwnCall ==
    /\ \A k \in 1..Len(chunks) :
          exits[k] = "ok" /\ (pc = "split" \/ InFlight(k)) => chunks[k].path \in files
    /\ Merged =>
          \A k \in 1..Len(chunks) :
             responses[k].kind \in {"ok", "error"} /\ chunks[k].path \notin files

\* Three extracted chunks, the call of the second failed and the others
\* returned; every file is deleted.
C14_Witness ==
    /\ pc = "done"
    /\ exits = <<"ok", "ok", "ok">>
    /\ Ok(1) /\ responses[2].kind = "error" /\ Ok(3)
    /\ files = {}

CallsIssued == Chunked /\ pc \in {"await", "merge", "post", "done"}

NoRepeat(q) == \A i, j \in 1..Len(q) : i # j => q[i] # q[j]

\* C15: one call is issued per chunk and none again after a failure; each
\* call resolves once, to an outcome that carries the index and the chunk
\* it was issued for; the join holds exactly one outcome per index 0..N-1.
C15_OneOutcomePerChunk ==
    /\ CallsIssued =>
         /\ stats.transcribe = Len(chunks)
         /\ Len(promises) = Len(chunks)
         /\ NoRepeat(completionOrder)
         /\ \A k \in 1..Len(promises) :
              promises[k].state # "pending" =>
                 /\ promises[k].value.index = k - 1
                 /\ promises[k].value.chunk = chunks[k]
                 /\ responses[k].kind \in {"ok", "error"}
    /\ MergeBegun =>
         /\ Len(results) = Len(chunks)
         /\ \A k \in 1..Len(chunks) : Cardinality(OutcomesOf(k)) = 1

\* Three chunks completing in the order 3, 1, 2, the calls of the second
\* and the third failed; the join holds the three outcomes.
C15_Witness ==
    /\ pc = "merge"
    /\ Len(chunks) = 3
    /\ completionOrder = <<3, 1, 2>>
    /\ Failed = {2, 3}
    /\ stats.transcribe = 3
    /\ [i \in 1..3 |-> results[i].index] = <<0, 1, 2>>

\* C20: when the duration probe yields NaN, the job writes no output and
\* does not reach the merge or the end of main.
C20_UnreadableSourceAborts ==
    duration = NaN => output.kind = "none" /\ pc \notin {"merge", "post", "done"}

\* The answer and the offset extractWords was applied to.
Answer == responses[1].result
AnswerOffset == chunks[1].startOffset
SegmentMode == pc = "extracted" /\ ~Answer.hasWords /\ Answer.hasSegments
WordMode == pc = "extracted" /\ Answer.hasWords

\* The number of tokens of the segments before position i.
RECURSIVE TokensBefore(_, _)
TokensBefore(segs, i) ==
    IF i <= 1 THEN 0
    ELSE TokensBefore(segs, i - 1) + Len(TokensOf(segs[i - 1].text))

\* The words of segment i with n >= 1 tokens are n words with the tokens'
\* texts in order; word k spans [start + (k-1)*d, start + k*d) moved by
\* the offset, d = (end - start)/n, compared by Same; consecutive words
\* abut, the first starts at the segment start, the last ends at its end.
UniformSlices(Same(_, _, _)) ==
    LET segs == Answer.segments
    IN  /\ Len(allWords) = TokensBefore(segs, Len(segs) + 1)
        /\ \A i \in 1..Len(segs) :
             LET toks == TokensOf(segs[i].text)
                 n == Len(toks)
                 base == TokensBefore(segs, i)
                 s == segs[i].start + AnswerOffset
                 e == segs[i].end + AnswerOffset
                 dur == segs[i].end - segs[i].start
             IN  n >= 1 =>
                   /\ \A k \in 1..n :
                        /\ allWords[base + k].word = toks[k]
                        /\ Same(allWords[base + k].startOffset, s * n + (k - 1) * dur, n)
                        /\ Same(allWords[base + k].endOffset, s * n + k * dur, n)
                        /\ k < n => allWords[base + k].endOffset
                                       = allWords[base + k + 1].startOffset
                   /\ Same(allWords[base + 1].startOffset, s, 1)
                   /\ Same(allWords[base + n].endOffset, e, 1)

\* C16 as stated: the spans are the exact uniform slices.
C16_SlicesExact == SegmentMode => UniformSlices(ExactMs)

\* C16: in segment mode a segment of n >= 1 tokens yields n words in token
\* order, word i spanning the i-th of n equal slices of the segment, each
\* bound rounded to the nearest millisecond; consecutive words abut, the
\* first starts at the segment start and the last ends at the segment end.
C16_SlicesRounded == SegmentMode => UniformSlices(NearestMs)

\* "a b c" over [0, 3] without offset gives [0,1), [1,2), [2,3).
C16_Witness ==
    /\ SegmentMode
    /\ AnswerOffset = 0
    /\ Len(Answer.segments) = 1
    /\ Answer.segments[1].text = <<"a", " ", "b", " ", "c">>
    /\ Answer.segments[1].start = 0 /\ Answer.segments[1].end = Sec(3)
    /\ [k \in 1..3 |-> <<allWords[k].word, allWords[k].startOffset, allWords[k].endOffset>>]
         = << <<<<"a">>, 0, 1000>>, <<<<"b">>, 1000, 2000>>, <<<<"c">>, 2000, 3000>> >>

IsBlank(text) == \A i \in 1..Len(text) : text[i] \in Whitespace

\* C17: a segment whose text is empty or blank yields no word and no
\* error: the list is the one the same answer without its blank segments
\* yields, and it has one word per token.
C17_BlankSegmentsSkipped ==
    SegmentMode =>
       LET segs == Answer.segments
           kept == SelectSeq(segs, LAMBDA g : ~IsBlank(g.text))
       IN  /\ allWords = extractWords(SegmentsResult(kept), AnswerOffset)
           /\ Len(allWords) = TokensBefore(segs, Len(segs) + 1)
           /\ (\A i \in 1..Len(segs) : IsBlank(segs[i].text)) => allWords = <<>>
           /\ \A j \in 1..Len(allWords) : allWords[j].word # <<>>

\* A blank segment before a segment of three tokens: three words.
C17_Witness ==
    /\ SegmentMode
    /\ Len(Answer.segments) = 2
    /\ Answer.segments[1].text = <<" ", " ">>
    /\ Answer.segments[2].text = <<"a", " ", "b", " ", "c">>
    /\ Len(allWords) = 3
    /\ allWords[1].word = <<"a">>

\* C18: in word-timestamp mode the list has exactly one word per input
\* word, in input order, with the input word's text and speakerLabel "0".
C18_OneWordPerInputWord ==
    WordMode =>
       /\ Len(allWords) = Len(Answer.words)
       /\ \A i \in 1..Len(allWords) :
            /\ allWords[i].word = Answer.words[i].word
            /\ allWords[i].speakerLabel = "0"
            /\ NearestMs(allWords[i].startOffset, Answer.words[i].start + AnswerOffset, 1)
            /\ NearestMs(allWords[i].endOffset, Answer.words[i].end + AnswerOffset, 1)

\* Two input words out of time order, one with an empty text, in an answer
\* that also has a segment: two words, in input order.
C18_Witness ==
    /\ WordMode
    /\ Answer.hasSegments
    /\ Answer.words = <<W(<<"b">>, Sec(5), Sec(6)), W(<<>>, Sec(1), Sec(1))>>
    /\ AnswerOffset = Sec(250)
    /\ Len(allWords) = 2
    /\ allWords[1].word = <<"b">> /\ allWords[1].startOffset = 255000
    /\ allWords[2].word = <<>> /\ allWords[2].speakerLabel = "0"

\* Line i is read as a start; line i is read as an end (it closes an
\* interval if a start is open).
Opens(lines, i) == lines[i].hasStart /\ lines[i].start >= 0
Closes(lines, i) == lines[i].hasEnd /\ lines[i].end >= 0 /\ ~Opens(lines, i)

\* The last line before j that opens or closes, 0 if there is none.
LastMarkBefore(lines, j) ==
    LET marks == {i \in 1..(j - 1) : Opens(lines, i) \/ Closes(lines, i)}
    IN  IF marks = {} THEN 0 ELSE CHOOSE i \in marks : \A m \in marks : m <= i

\* The intervals completed within the first n lines: one per closing line
\* whose last mark before it is an opening line.
RECURSIVE Completed(_, _)
Completed(lines, n) ==
    IF n = 0 THEN <<>>
    ELSE LET i == LastMarkBefore(lines, n)
         IN  Completed(lines, n - 1)
             \o (IF Closes(lines, n) /\ i > 0 /\ Opens(lines, i)
                 THEN <<[start |-> lines[i].start, end |-> lines[n].end]>>
                 ELSE <<>>)

\* The stream ends with a start that no end follows.
Unterminated(lines) ==
    LET last == LastMarkBefore(lines, Len(lines) + 1)
    IN  last > 0 /\ Opens(lines, last)

\* C19: a start marker that no end marker follows before the end of the
\* stream yields no interval, and the intervals completed before it are
\* all returned: the result is the list of the completed intervals, the
\* same as for the stream cut before the unterminated start.
C19_UnterminatedStartDropped ==
    pc = "parsed" =>
       /\ silences = Completed(stderrLines, Len(stderrLines))
       /\ Unterminated(stderrLines) =>
            LET last == LastMarkBefore(stderrLines, Len(stderrLines) + 1)
            IN  /\ silences = detectSilences(SubSeq(stderrLines, 1, last - 1))
                /\ \A k \in 1..Len(silences) :
                      \E j \in 1..(last - 1) :
                         Closes(stderrLines, j) /\ silences[k].end = stderrLines[j].end

\* A completed interval, then a start without an end: one interval.
C19_Witness ==
    /\ pc = "parsed"
    /\ stderrLines = <<StartLine(Sec(100)), EndLine(Sec(103)), OtherLine,
                       StartLine(Sec(615) + 1)>>
    /\ silences = <<[start |-> Sec(100), end |-> Sec(103)]>>

---------------------------------------------------------------------------
(* The dispatch, the join and the merge on their own, under the scheduling *)
(* of the runtime: splitAudio has returned the chunks of a plan, some of   *)
(* them without a file; a step of main that can be taken is taken, and     *)
(* nothing makes a call of the service answer.                             *)

JoinDurations == {Sec(500), Sec(700), Sec(1300)}

InitJoin ==
    /\ pc = "split"
    /\ chunkDurationMin \in {5, 10}
    /\ jobs = <<>>
    /\ tmp = <<>>
    /\ OtherIdle
    /\ raw = FALSE
    /\ duration \in JoinDurations
    /\ chunkDurationSec = chunkDurationMin * Sec(60)
    /\ ~IsSingleChunk(duration, chunkDurationSec)
    /\ PlannedChunks(duration, chunkDurationSec) <= MaxChunks
    /\ stderrLines = LinesOf(<<>>)
    /\ silences = <<>>
    /\ splitPoints = findSplitPoints(silences, duration, chunkDurationSec)
    /\ planWindows = [i \in 1..Len(splitPoints) |-> 0]
    /\ chunks = [k \in 1..Len(splitPoints) |-> ChunkAt(splitPoints, duration, k)]
    /\ exits \in [1..Len(splitPoints) -> {"ok", "failed"}]
    /\ files = {chunks[k].path : k \in {i \in 1..Len(chunks) : exits[i] = "ok"}}
    /\ responses = <<>>
    /\ promises = <<>>
    /\ completionOrder = <<>>
    /\ results = <<>>
    /\ mergeIdx = 0
    /\ allWords = <<>>
    /\ output = NoOutput
    /\ stats = [detect |-> 1, plan |-> 1, extract |-> Len(splitPoints),
                transcribe |-> 0]

NextJoin == Dispatch \/ Resolve \/ Join \/ MergeStep \/ WriteOutput

SpecJoin ==
    /\ InitJoin /\ [][NextJoin]_vars
    /\ WF_vars(Dispatch) /\ WF_vars(Join) /\ WF_vars(MergeStep)
    /\ WF_vars(WriteOutput)

\* Every call issued has returned or failed.
AllSettled == CallsIssued /\ \A k \in 1..Len(promises) : ~InFlight(k)

\* The chunked job has finished: every outcome merged, every chunk file
\* deleted, the transcript written.
Finished ==
    /\ Chunked /\ pc = "done"
    /\ mergeIdx = Len(results) + 1 /\ Len(results) = Len(chunks)
    /\ \A k \in 1..Len(chunks) : chunks[k].path \notin files
    /\ output.kind = "transcript"

\* C21: if every call eventually returns or fails, the chunked job
\* eventually finishes; while a call has not resolved the job stays at the
\* join: nothing but the answer of the call takes it further.
C21_FinishesIffCallsResolve ==
    /\ <>AllSettled => <>Finished
    /\ [](CallsIssued /\ ~AllSettled => pc = "await")
    /\ [][pc = "await" /\ ~AllSettled => pc' = "await"]_vars

\* Three calls, the second failed and the last to resolve; the job has
\* finished.
C21_Witness ==
    /\ Finished
    /\ Len(chunks) = 3
    /\ completionOrder = <<3, 1, 2>>
    /\ Failed = {2}

\* C22: on the chunked path the stages run one after the other: the plan
\* is made from the silences detection returned, chunks are extracted one
\* per step in index order from the finished plan, and the calls are
\* issued, all at once, only when every chunk of the plan is extracted.
C22_StagesInSequence ==
    Chunked =>
       /\ stats.detect = 1 /\ stats.plan <= 1
       /\ pc = "plan" => stats.plan = 0 /\ stats.extract = 0 /\ stats.transcribe = 0
       /\ stats.plan = 1 /\ pc # "diverged" =>
             splitPoints = findSplitPoints(silences, duration, chunkDurationSec)
       /\ stats.plan = 0 => splitPoints = <<>> /\ chunks = <<>>
       /\ Len(chunks) <= Len(splitPoints) /\ Len(exits) = Len(chunks)
       /\ stats.extract \in {Len(chunks), Len(chunks) + 1}
       /\ stats.extract = Len(chunks) + 1 => pc = "aborted" /\ stats.transcribe = 0
       /\ \A k \in 1..Len(chunks) :
             chunks[k] = ChunkAt(splitPoints, duration, k) /\ chunks[k].path = k - 1
       /\ pc = "split" => stats.transcribe = 0 /\ promises = <<>>
       /\ stats.transcribe > 0 =>
             /\ Len(chunks) = Len(splitPoints)
             /\ stats.extract = Len(chunks)
             /\ stats.transcribe = Len(chunks)
             /\ Len(promises) = Len(chunks)

\* A plan of three offsets made from two silences, its three chunks
\* extracted, and the three calls issued and still pending.
C22_Witness ==
    /\ pc = "await"
    /\ Len(silences) = 2
    /\ Len(splitPoints) = 3
    /\ Len(chunks) = 3
    /\ stats = [detect |-> 1, plan |-> 1, extract |-> 3, transcribe |-> 3]
    /\ \A k \in 1..3 : InFlight(k)

\* splitAudio has returned its chunks to main.
ChunksProduced == Chunked /\ pc \in {"await", "merge", "post", "done"}

\* C23 as stated: one chunk fewer than the plan has offsets.
C23_OneFewerThanOffsets == ChunksProduced => Len(chunks) = Len(splitPoints) - 1

\* C23: the number of chunks produced from a split plan equals the number
\* of offsets of the plan: one chunk per offset, the last one ending at
\* the total duration.
C23_OneChunkPerOffset ==
    ChunksProduced =>
       /\ Len(chunks) = Len(splitPoints)
       /\ \A k \in 1..Len(chunks) : chunks[k].startOffset = splitPoints[k]
       /\ duration # NaN =>
             ChunkEnd(chunks[Len(chunks)]) = duration

\* The plan [0, 600] of an audio of 700 s gave two chunks.
C23_Witness ==
    /\ ChunksProduced
    /\ duration = Sec(700)
    /\ splitPoints = <<0, Sec(600)>>
    /\ Len(chunks) = 2
    /\ chunks[2].startOffset = Sec(600) /\ chunks[2].duration = Sec(100)

---------------------------------------------------------------------------
(* Two jobs on one machine.  Each runs the chunked path of main on its own *)
(* audio; both name their chunk files /tmp/transcribe_chunk_<i>.wav.       *)

MaxJobChunks == 2

JobIds == {1, 2}
NoWriter == 0

\* What the call for a chunk has read of the chunk's path.
NotRead == [kind |-> "pending", writer |-> NoWriter]
ReadOf(writer) ==
    IF writer = NoWriter THEN [kind |-> "missing", writer |-> NoWriter]
    ELSE [kind |-> "audio", writer |-> writer]

\* A job whose plan has n offsets, about to call splitAudio.
NewJob(n) == [pc |-> "split", n |-> n, extracted |-> 0,
              read |-> [k \in 1..n |-> NotRead], merged |-> 0]

InitTwoJobs ==
    /\ pc = "jobs"
    /\ chunkDurationMin = 10
    /\ jobs \in [JobIds -> {NewJob(n) : n \in 1..MaxJobChunks}]
    /\ tmp = [i \in 0..(MaxJobChunks - 1) |-> NoWriter]
    /\ OtherIdle
    /\ raw = FALSE
    /\ duration = 0
    /\ chunkDurationSec = chunkDurationMin * Sec(60)
    /\ stderrLines = <<>>
    /\ silences = <<>>
    /\ splitPoints = <<>>
    /\ planWindows = <<>>
    /\ chunks = <<>>
    /\ files = {}
    /\ exits = <<>>
    /\ responses = <<>>
    /\ promises = <<>>
    /\ completionOrder = <<>>
    /\ results = <<>>
    /\ mergeIdx = 0
    /\ allWords = <<>>
    /\ output = NoOutput
    /\ stats = NoStats

\* One iteration of splitAudio in job j: ffmpeg -y writes the chunk of the
\* job's audio to the path of index i, over whatever is there.
JobExtractChunk(j) ==
    /\ jobs[j].pc = "split"
    /\ jobs[j].extracted < jobs[j].n
    /\ tmp' = [tmp EXCEPT ![jobs[j].extracted] = j]
    /\ jobs' = [jobs EXCEPT ![j].extracted = @ + 1]
    /\ UNCHANGED <<mainVars, otherVars>>

\* splitAudio returns in job j and the calls are issued.
JobDispatch(j) ==
    /\ jobs[j].pc = "split"
    /\ jobs[j].extracted = jobs[j].n
    /\ jobs' = [jobs EXCEPT ![j].pc = "await"]
    /\ UNCHANGED <<mainVars, tmp, otherVars>>

\* The call for chunk k of job j reads the file at chunk.path.
JobReadChunk(j) ==
    /\ jobs[j].pc = "await"
    /\ \E k \in 1..jobs[j].n :
         /\ jobs[j].read[k] = NotRead
         /\ jobs' = [jobs EXCEPT ![j].read[k] = ReadOf(tmp[k - 1])]
    /\ UNCHANGED <<mainVars, tmp, otherVars>>

\* Promise.all of job j settles.
JobJoin(j) ==
    /\ jobs[j].pc = "await"
    /\ \A k \in 1..jobs[j].n : jobs[j].read[k] # NotRead
    /\ jobs' = [jobs EXCEPT ![j].pc = "merge"]
    /\ UNCHANGED <<mainVars, tmp, otherVars>>

\* One iteration of the merge loop of job j: unlink(r.chunk.path).
JobMergeStep(j) ==
    /\ jobs[j].pc = "merge"
    /\ tmp' = [tmp EXCEPT ![jobs[j].merged] = NoWriter]
    /\ jobs' = [jobs EXCEPT ![j].merged = @ + 1,
                            ![j].pc = IF jobs[j].merged + 1 = jobs[j].n
                                      THEN "done" ELSE "merge"]
    /\ UNCHANGED <<mainVars, otherVars>>

NextTwoJobs ==
    \E j \in JobIds :
       \/ JobExtractChunk(j)
       \/ JobDispatch(j)
       \/ JobReadChunk(j)
       \/ JobJoin(j)
       \/ JobMergeStep(j)

SpecTwoJobs == InitTwoJobs /\ [][NextTwoJobs]_vars

\* C25: two jobs at the same time do not interfere through the chunk
\* files: the call of a job for chunk i reads the audio this job extracted
\* for chunk i, and a file a job has extracted and not yet read is still
\* this job's file.
C25_JobsDoNotInterfere ==
    pc = "jobs" =>
       \A j \in JobIds :
          \A k \in 1..jobs[j].n :
             /\ jobs[j].read[k] # NotRead => jobs[j].read[k] = ReadOf(j)
             /\ jobs[j].extracted >= k /\ jobs[j].read[k] = NotRead
                   => tmp[k - 1] = j

\* A job that runs while no other job has started reads its own chunks.
AloneReadsOwnChunks ==
    pc = "jobs" =>
       \A j \in JobIds :
          (\A o \in JobIds \ {j} : jobs[o].extracted = 0) =>
             \A k \in 1..jobs[j].n :
                jobs[j].read[k] # NotRead => jobs[j].read[k] = ReadOf(j)

\* C26: findSplitPoints terminates for every total duration and every
\* chunk length main can pass to it, and returns a finite plan that
\* begins at 0.
C26_PlanningTerminates ==
    stats.plan >= 1 =>
       /\ pc # "diverged"
       /\ splitPoints # <<>> /\ splitPoints[1] = 0

\* The lists that hold the elements of sil in another order.
Reorderings(sil) ==
    {[i \in 1..Len(sil) |-> sil[f[i]]] : f \in Permutations(1..Len(sil))}

\* C27: the plan does not depend on the order of the silence list: every
\* reordering of the list yields the same offsets.
C27_PlanIgnoresOrder ==
    pc = "split" /\ stats.plan >= 1 =>
       \A q \in Reorderings(silences) :
          findSplitPoints(q, duration, chunkDurationSec) = splitPoints

\* Two starts of the list are equally distant from a checkpoint.
HasTie ==
    \E i, j \in 1..Len(silences) :
       /\ silences[i].start # silences[j].start
       /\ \E k \in 2..Len(splitPoints) :
             Abs(silences[i].start - Checkpoint(k)) = Abs(silences[j].start - Checkpoint(k))

\* Without two starts equally distant from a checkpoint the order of the
\* list does not matter.
PlanIgnoresOrderWithoutTie ==
    pc = "split" /\ stats.plan >= 1 /\ ~HasTie =>
       \A q \in Reorderings(silences) :
          findSplitPoints(q, duration, chunkDurationSec) = splitPoints

\* The starts of the list within 180 s of the checkpoint of position k.
StartsWithinCap(k) ==
    {silences[i].start : i \in {j \in 1..Len(silences) :
        Abs(silences[j].start - Checkpoint(k)) <= Sec(180)}}

\* C28: the offset chosen for a checkpoint is a silence start nearest to
\* the checkpoint among all the starts within 180 s of it, whatever the
\* window the search stopped at; the checkpoint itself if there is none.
C28_NearestOfAllWithinCap ==
    pc = "split" /\ stats.plan >= 1 =>
       \A k \in 2..Len(splitPoints) :
          IF StartsWithinCap(k) = {}
          THEN splitPoints[k] = Checkpoint(k)
          ELSE /\ splitPoints[k] \in StartsWithinCap(k)
               /\ \A t \in StartsWithinCap(k) :
                     Abs(splitPoints[k] - Checkpoint(k)) <= Abs(t - Checkpoint(k))

\* Checkpoint 600 with starts at 780 and 650, in this order: the search
\* stops at the window of 60 s with 650, and 780 is no nearer.
C28_Witness ==
    /\ pc = "split"
    /\ chunkDurationMin = 10
    /\ duration = Sec(1300)
    /\ silences = <<Silence(Sec(780)), Silence(Sec(650))>>
    /\ splitPoints = <<0, Sec(650), Sec(1200)>>
    /\ planWindows[2] = Sec(60)

\* The labels of the words of the segments from position i on, one per
\* token.
RECURSIVE SegmentLabels(_, _)
SegmentLabels(segs, i) ==
    IF i > Len(segs) THEN <<>>
    ELSE [k \in 1..Len(TokensOf(segs[i].text)) |-> StripSpeaker(segs[i].speaker)]
         \o SegmentLabels(segs, i + 1)

Texts(words) == [i \in 1..Len(words) |-> words[i].word]
Labels(words) == [i \in 1..Len(words) |-> words[i].speakerLabel]

\* C29: extractWords takes exactly one shape of the answer: with a words
\* field, even an empty one, the words alone and no segment; with segments
\* only, the segments; with neither, the empty list.
C29_OneShapeOnly ==
    pc = "extracted" =>
       IF Answer.hasWords
       THEN /\ Texts(allWords) = [i \in 1..Len(Answer.words) |-> Answer.words[i].word]
            /\ \A i \in 1..Len(allWords) : allWords[i].speakerLabel = "0"
            /\ allWords = extractWords(WordsResult(Answer.words), AnswerOffset)
       ELSE IF Answer.hasSegments
       THEN /\ Texts(allWords) = SegmentTexts(Answer.segments, 1)
            /\ Labels(allWords) = SegmentLabels(Answer.segments, 1)
       ELSE allWords = <<>>

\* An answer with an empty words field and a segment: no word.
C29_Witness ==
    /\ pc = "extracted"
    /\ Answer.hasWords /\ Answer.words = <<>>
    /\ Answer.hasSegments /\ Len(Answer.segments) = 1
    /\ allWords = <<>>

\* The single call of the short-audio path has thrown.
SingleCallFailed == ~Chunked /\ responses # <<>> /\ responses[1].kind = "error"

\* C30: on the short-audio path a failure of the single call ends the job
\* with an error and without output; no word list is made of it.
C30_SingleFailureIsFatal ==
    SingleCallFailed =>
       /\ pc = "aborted"
       /\ output.kind = "none"
       /\ allWords = <<>>
       /\ stats = [NoStats EXCEPT !.transcribe = 1]

\* The call on an audio as long as the chunk length failed: the job is
\* aborted after this one call.
C30_Witness ==
    /\ SingleCallFailed
    /\ pc = "aborted"
    /\ duration = chunkDurationSec
    /\ stats.transcribe = 1
    /\ output = NoOutput

---------------------------------------------------------------------------
(* C31: pairing of start and end markers *)

\* Line i carries a start marker; line i carries an end marker (and no
\* start marker, which the loop looks for first).
StartMarker(lines, i) == lines[i].hasStart
EndMarker(lines, i) == lines[i].hasEnd /\ ~lines[i].hasStart

\* The last marker line before j, 0 if there is none.
LastMarkerBefore(lines, j) ==
    LET marks == {i \in 1..(j - 1) : StartMarker(lines, i) \/ EndMarker(lines, i)}
    IN  IF marks = {} THEN 0 ELSE CHOOSE i \in marks : \A m \in marks : m <= i

\* One interval per end marker that has a pending start, in stream order:
\* an end marker is paired with the start marker right before it among the
\* markers; after an end marker, or at the head of the stream, no start is
\* pending.
RECURSIVE PairedMarkers(_, _)
PairedMarkers(lines, n) ==
    IF n = 0 THEN <<>>
    ELSE LET i == LastMarkerBefore(lines, n)
         IN  PairedMarkers(lines, n - 1)
             \o (IF EndMarker(lines, n) /\ i > 0 /\ StartMarker(lines, i)
                 THEN <<[start |-> lines[i].start, end |-> lines[n].end]>>
                 ELSE <<>>)

\* C31: for every sequence of silence_start / silence_end markers the
\* result holds one interval per end marker that has a pending start,
\* paired with the most recent start marker since the last interval, in
\* stream order; an end marker without pending start emits nothing, a start
\* after a start replaces it, and no start is used twice.
C31_EndsPairedWithLatestStart ==
    pc = "parsed" => silences = PairedMarkers(stderrLines, Len(stderrLines))

\* The same for streams whose markers all carry unsigned numbers.
PairingHoldsForUnsignedMarkers ==
    (/\ pc = "parsed"
     /\ \A i \in 1..Len(stderrLines) :
           /\ stderrLines[i].hasStart => stderrLines[i].start >= 0
           /\ stderrLines[i].hasEnd => stderrLines[i].end >= 0)
    => silences = PairedMarkers(stderrLines, Len(stderrLines))

---------------------------------------------------------------------------
(* The RTZR client: getToken, submitTranscription, pollTranscription, main *)
(* Time is in seconds here, as in expire_at and Date.now() / 1000.         *)

\* const pollInterval = 5000 (ms)
pollInterval == 5

\* const timeout = 3600000 (ms)
timeout == 3600

\* The buffer of getToken: Date.now() / 1000 + 1800
TokenBuffer == 1800

\* How long a token lives from its authentication, by the service's
\* expire_at: 20 minutes, 45 minutes, 6 hours.
Lifetimes == {1200, 2700, 21600}

\* How long a request to the service takes.
Latencies == {0, 600}

\* TranscriptionResult.status
Statuses == {"transcribing", "completed", "failed"}

\* cachedToken && cachedToken.expire_at > Date.now() / 1000 + 1800
Reusable(ct, t) == ~ct.isNull /\ ct.expire_at > t + TokenBuffer

\* The token getToken returns at time t when the authentication, if one is
\* needed, answers a token living `life`.
getToken(ct, t, life) ==
    IF Reusable(ct, t) THEN ct ELSE [isNull |-> FALSE, expire_at |-> t + life]

\* A status that ends the polling whatever it is.
IsFinalOrBusy(status) == TRUE

\* result.status === "completed" || result.status === "failed"
IsFinal(status) == status = "completed" \/ status = "failed"

Request(kind, tok, t) == [kind |-> kind, at |-> t, expire_at |-> tok.expire_at]

Throw(message) ==
    /\ pc' = "threw"
    /\ error' = message

InitRtzr ==
    /\ pc = "submit"
    /\ chunkDurationMin = 10
    /\ jobs = <<>>
    /\ tmp = <<>>
    /\ OtherIdle
    /\ raw = FALSE
    /\ duration = 0
    /\ chunkDurationSec = chunkDurationMin * Sec(60)
    /\ stderrLines = <<>>
    /\ silences = <<>>
    /\ splitPoints = <<>>
    /\ planWindows = <<>>
    /\ chunks = <<>>
    /\ files = {}
    /\ exits = <<>>
    /\ responses = <<>>
    /\ promises = <<>>
    /\ completionOrder = <<>>
    /\ results = <<>>
    /\ mergeIdx = 0
    /\ allWords = <<>>
    /\ output = NoOutput
    /\ stats = NoStats

\* submitTranscription(audioPath): the token, the file check, the upload.
Submit ==
    /\ pc = "submit"
    /\ \E authOk \in BOOLEAN, life \in Lifetimes, exists \in BOOLEAN,
          d \in Latencies, ok \in BOOLEAN :
          IF ~Reusable(cachedToken, now) /\ ~authOk
          THEN /\ Throw("Authentication failed")
               /\ UNCHANGED <<now, cachedToken, token, sent>>
          ELSE LET tok == getToken(cachedToken, now, life)
               IN  /\ cachedToken' = tok
                   /\ token' = tok
                   /\ IF ~exists
                      THEN /\ Throw("File not found")
                           /\ UNCHANGED <<now, sent>>
                      ELSE /\ sent' = Request("submit", tok, now)
                           /\ now' = now + d
                           /\ IF ok
                              THEN pc' = "poll" /\ UNCHANGED error
                              ELSE Throw("Submit failed")
    /\ UNCHANGED <<deadline, pollResult, notRtzr>>

\* The head of pollTranscription: the token, fetched once, and the deadline.
PollBegin ==
    /\ pc = "poll"
    /\ \E authOk \in BOOLEAN, life \in Lifetimes :
          IF ~Reusable(cachedToken, now) /\ ~authOk
          THEN /\ Throw("Authentication failed")
               /\ UNCHANGED <<cachedToken, token, deadline>>
          ELSE LET tok == getToken(cachedToken, now, life)
               IN  /\ cachedToken' = tok
                   /\ token' = tok
                   /\ deadline' = now + timeout
                   /\ pc' = "polling"
                   /\ UNCHANGED error
    /\ UNCHANGED <<now, sent, pollResult, notRtzr>>

\* One turn of `while (Date.now() < deadline)`, and the throw after it.
Poll ==
    /\ pc = "polling"
    /\ IF now < deadline
       THEN \E d \in Latencies, ok \in BOOLEAN, status \in Statuses :
               /\ sent' = Request("poll", token, now)
               /\ IF ~ok
                  THEN /\ Throw("Poll failed")
                       /\ now' = now + d
                       /\ UNCHANGED pollResult
                  ELSE /\ pollResult' = [status |-> status]
                       /\ UNCHANGED error
                       /\ IF IsFinal(status)
                          THEN pc' = "returned" /\ now' = now + d
                          ELSE pc' = "polling" /\ now' = now + d + pollInterval
       ELSE /\ Throw("Timeout waiting for transcription")
            /\ UNCHANGED <<now, sent, pollResult>>
    /\ UNCHANGED <<cachedToken, token, deadline, notRtzr>>

\* main after pollTranscription: exit 1 on a failed transcription, the
\* result written otherwise.
Finish ==
    /\ pc = "returned"
    /\ IF pollResult.status = "failed"
       THEN pc' = "exit" /\ error' = "Transcription failed"
       ELSE pc' = "written" /\ UNCHANGED error
    /\ UNCHANGED <<now, cachedToken, token, deadline, sent, pollResult,
                   notRtzr>>

NextRtzr == Submit \/ PollBegin \/ Poll \/ Finish

SpecRtzr == InitRtzr /\ [][NextRtzr]_vars /\ WF_vars(NextRtzr)

---------------------------------------------------------------------------
(* C32: the polling ends, and only with a final result *)

---------------------------------------------------------------------------
(* C33: the token a request carries *)

\* C33: every request sent to the service, the submit and each poll,
\* carries a token that is not expired at the time the request is sent.
C33_TokenValidWhenSent ==
    sent.kind # "none" => sent.expire_at > sent.at

\* The submit always carries a token that is not expired.
SubmitTokenValid ==
    sent.kind = "submit" => sent.expire_at > sent.at

---------------------------------------------------------------------------
(* utils.ts: parseOffset, getWordsForScene, groupWordsBySpeaker,           *)
(* formatKoreanTxt                                                         *)

MaxSceneWords == 3

\* An optional string holding an offset: absent, "", or "<seconds>s" with
\* the seconds kept in ticks.
NoOffset == [defined |-> FALSE, empty |-> FALSE, ticks |-> 0]
EmptyOffset == [defined |-> TRUE, empty |-> TRUE, ticks |-> 0]
OffsetText(t) == [defined |-> TRUE, empty |-> FALSE, ticks |-> t]

\* An optional speakerLabel.
NoSpeakerLabel == [defined |-> FALSE, text |-> ""]
SpeakerLabel(l) == [defined |-> TRUE, text |-> l]

\* TranscriptionWord
SceneWord(word, startOffset, endOffset, speakerLabel) ==
    [word |-> word, startOffset |-> startOffset, endOffset |-> endOffset,
     speakerLabel |-> speakerLabel]

\* !offset
Falsy(offset) == ~offset.defined \/ offset.empty

\* parseOffset(offset)
parseOffset(offset) == IF Falsy(offset) THEN 0 ELSE offset.ticks

\* The test of the filter with the end of the scene included.
InSceneClosed(w, startTime, endTime) ==
    IF Falsy(w.startOffset) THEN FALSE
    ELSE LET wordStart == parseOffset(w.startOffset)
         IN  wordStart >= startTime /\ wordStart <= endTime

\* The callback of words.filter(...) in getWordsForScene.
InScene(w, startTime, endTime) ==
    IF Falsy(w.startOffset) THEN FALSE
    ELSE LET wordStart == parseOffset(w.startOffset)
         IN  wordStart >= startTime /\ wordStart < endTime

RECURSIVE getWordsForScene(_, _, _)
getWordsForScene(words, startTime, endTime) ==
    IF words = <<>> THEN <<>>
    ELSE (IF InScene(Head(words), startTime, endTime) THEN <<Head(words)>> ELSE <<>>)
         \o getWordsForScene(Tail(words), startTime, endTime)

\* currentWords.join(" ")
RECURSIVE JoinWords(_)
JoinWords(ws) ==
    IF ws = <<>> THEN ""
    ELSE IF Len(ws) = 1 THEN ws[1]
    ELSE ws[1] \o " " \o JoinWords(Tail(ws))

\* A word without label taken for speaker "1".
speakerOfFromOne(word) ==
    IF word.speakerLabel.defined THEN word.speakerLabel.text ELSE "1"

\* word.speakerLabel ?? "0"
speakerOf(word) ==
    IF word.speakerLabel.defined THEN word.speakerLabel.text ELSE "0"

\* The loop `for (let i = 1; i < words.length; i++)` from the word at k on,
\* and the push after it.
RECURSIVE GroupLoop(_, _, _, _, _)
GroupLoop(words, k, currentSpeaker, currentWords, gs) ==
    IF k > Len(words)
    THEN Append(gs, [speaker |-> currentSpeaker, text |-> JoinWords(currentWords)])
    ELSE LET speaker == speakerOf(words[k])
         IN  IF speaker = currentSpeaker
             THEN GroupLoop(words, k + 1, currentSpeaker,
                            Append(currentWords, words[k].word), gs)
             ELSE GroupLoop(words, k + 1, speaker, <<words[k].word>>,
                            Append(gs, [speaker |-> currentSpeaker,
                                        text |-> JoinWords(currentWords)]))

groupWordsBySpeaker(words) ==
    IF Len(words) = 0 THEN <<>>
    ELSE GroupLoop(words, 2, speakerOf(words[1]), <<words[1].word>>, <<>>)

\* Shot
Shot(start_frame, end_frame, start_time, end_time) ==
    [start_frame |-> start_frame, end_frame |-> end_frame,
     start_time |-> start_time, end_time |-> end_time]

\* Shot lists: three that tile 0 s .. 4 s, one with a gap, one with an
\* overlap, and the empty one.
ScenePool ==
    {<<>>,
     <<Shot(0, 119, 0, Sec(4))>>,
     <<Shot(0, 59, 0, Sec(2)), Shot(60, 119, Sec(2), Sec(4))>>,
     <<Shot(0, 44, 0, Sec(1) + Sec(1) \div 2), Shot(45, 59, Sec(1) + Sec(1) \div 2, Sec(2)),
       Shot(60, 119, Sec(2), Sec(4))>>,
     <<Shot(0, 44, 0, Sec(1) + Sec(1) \div 2), Shot(60, 119, Sec(2), Sec(4))>>,
     <<Shot(0, 59, 0, Sec(2)), Shot(45, 119, Sec(1) + Sec(1) \div 2, Sec(4))>>}

\* Words: starting at 0, inside a scene, on the border of two scenes, one
\* tick before the end of the last scene, at its end, without start
\* offset, with an empty one; ending in
\* the scene they start in, in a later one, or nowhere; with and without
\* speaker label.
SceneWordPool ==
    {SceneWord("a", OffsetText(0), OffsetText(Sec(1)), SpeakerLabel("1")),
     SceneWord("b", OffsetText(Sec(1)), OffsetText(Sec(3)), NoSpeakerLabel),
     SceneWord("c", OffsetText(Sec(2)), OffsetText(Sec(3)), SpeakerLabel("0")),
     SceneWord("d", OffsetText(Sec(1) + Sec(1) \div 2), NoOffset, SpeakerLabel("1")),
     SceneWord("e", OffsetText(Sec(4) - 1), OffsetText(Sec(5)), SpeakerLabel("2")),
     SceneWord("f", NoOffset, OffsetText(Sec(3)), SpeakerLabel("1")),
     SceneWord("g", EmptyOffset, EmptyOffset, NoSpeakerLabel),
     SceneWord("h", OffsetText(Sec(4)), OffsetText(Sec(5)), SpeakerLabel("0"))}

\* main's data while another program of the repository runs.
MainIdle ==
    /\ chunkDurationMin = 10
    /\ jobs = <<>>
    /\ tmp = <<>>
    /\ raw = FALSE
    /\ duration = 0
    /\ chunkDurationSec = chunkDurationMin * Sec(60)
    /\ stderrLines = <<>>
    /\ silences = <<>>
    /\ splitPoints = <<>>
    /\ planWindows = <<>>
    /\ chunks = <<>>
    /\ files = {}
    /\ exits = <<>>
    /\ responses = <<>>
    /\ promises = <<>>
    /\ completionOrder = <<>>
    /\ results = <<>>
    /\ mergeIdx = 0
    /\ allWords = <<>>
    /\ output = NoOutput
    /\ stats = NoStats

InitScenes ==
    /\ pc = "format"
    /\ MainIdle
    /\ RtzrIdle /\ DescribeIdle /\ SamplesIdle
    /\ transcriptionWords \in SeqsOver(SceneWordPool, MaxSceneWords)
    /\ shots \in ScenePool
    /\ sceneIdx = 0
    /\ sceneWords = <<>>
    /\ groups = <<>>
    /\ sceneLines = <<>>

\* One turn of the loop of formatKoreanTxt over result.shots.
FormatScene ==
    /\ pc = "format"
    /\ sceneIdx < Len(shots)
    /\ LET shot == shots[sceneIdx + 1]
           found == getWordsForScene(transcriptionWords, shot.start_time,
                                     shot.end_time)
           gs == groupWordsBySpeaker(found)
       IN  /\ sceneWords' = Append(sceneWords, found)
           /\ groups' = Append(groups, gs)
           /\ sceneLines' = Append(sceneLines,
                                   [scene |-> sceneIdx + 1,
                                    start |-> shot.start_time,
                                    end |-> shot.end_time,
                                    sov |-> gs])
    /\ sceneIdx' = sceneIdx + 1
    /\ UNCHANGED <<pc, transcriptionWords, shots, notScenes>>

\* return lines.join("\n")
FormatReturn ==
    /\ pc = "format"
    /\ sceneIdx = Len(shots)
    /\ pc' = "formatted"
    /\ UNCHANGED <<sceneVars, notScenes>>

NextScenes == FormatScene \/ FormatReturn

SpecScenes == InitScenes /\ [][NextScenes]_vars

---------------------------------------------------------------------------
(* C34: which scene a word belongs to *)

Handled == 1..Len(sceneWords)

\* The word has a start offset, and where it starts.
HasStart(w) == w.startOffset.defined /\ ~w.startOffset.empty
StartOf(w) == w.startOffset.ticks

\* The word was assigned to scene k.
AssignedTo(w, k) == \E n \in 1..Len(sceneWords[k]) : sceneWords[k][n] = w

\* The shots tile the timeline: each begins where the one before it ends.
Tiles(ss) ==
    /\ Len(ss) > 0
    /\ \A k \in 1..Len(ss) : ss[k].start_time < ss[k].end_time
    /\ \A k \in 1..(Len(ss) - 1) : ss[k + 1].start_time = ss[k].end_time

\* The start of the word lies on the timeline the shots tile.
OnTimeline(w, ss) ==
    /\ StartOf(w) >= ss[1].start_time
    /\ StartOf(w) < ss[Len(ss)].end_time

---------------------------------------------------------------------------
(* C35: runs of one speaker *)

\* The speaker a word counts for: its label, "0" without one.
Spk(w) == IF w.speakerLabel.defined THEN w.speakerLabel.text ELSE "0"

\* The positions at which a run begins: the first, and every one whose
\* speaker differs from the speaker of the word before.
RunStarts(ws) == {n \in 1..Len(ws) : n = 1 \/ Spk(ws[n]) # Spk(ws[n - 1])}

\* The start of the g-th run, and its last position.
RunStart(ws, g) ==
    CHOOSE n \in RunStarts(ws) : Cardinality({m \in RunStarts(ws) : m <= n}) = g
RunEnd(ws, g) ==
    IF g = Cardinality(RunStarts(ws)) THEN Len(ws) ELSE RunStart(ws, g + 1) - 1

WordsOf(ws) == [n \in 1..Len(ws) |-> ws[n].word]
TextsOf(gs) == [n \in 1..Len(gs) |-> gs[n].text]

\* C35: the groups are the maximal runs of consecutive words of one
\* speaker, a word without label counting as speaker "0": one group per
\* run, in order, with the run's speaker and the run's words joined;
\* adjacent groups differ in speaker, the groups' texts joined in order
\* give the input's words joined in order, and no word gives no group.
C35_GroupsAreMaximalRuns ==
    \A k \in 1..Len(groups) :
       LET ws == sceneWords[k]
           gs == groups[k]
       IN  /\ ws = <<>> => gs = <<>>
           /\ Len(gs) = Cardinality(RunStarts(ws))
           /\ \A g \in 1..Len(gs) :
                 /\ gs[g].speaker = Spk(ws[RunStart(ws, g)])
                 /\ gs[g].text
                      = JoinWords(WordsOf(SubSeq(ws, RunStart(ws, g), RunEnd(ws, g))))
                 /\ \A n \in RunStart(ws, g)..RunEnd(ws, g) : Spk(ws[n]) = gs[g].speaker
           /\ \A g \in 1..(Len(gs) - 1) : gs[g].speaker # gs[g + 1].speaker
           /\ JoinWords(TextsOf(gs)) = JoinWords(WordsOf(ws))

\* A scene of three words in two runs, the second without speaker label
\* following a word of speaker "0".
C35_Witness ==
    \E k \in 1..Len(groups) :
       /\ Len(sceneWords[k]) = 3
       /\ Len(groups[k]) = 2
       /\ \E n \in 2..3 : /\ ~sceneWords[k][n].speakerLabel.defined
                          /\ sceneWords[k][n - 1].speakerLabel = SpeakerLabel("0")

---------------------------------------------------------------------------
(* describe.ts: getFrameSamples *)

MaxFrame == 7
MaxInterval == 3

\* const FRAME_INTERVAL = 15
FRAME_INTERVAL == 15

\* while (current < endFrame) { frames.push(current); current += interval }
RECURSIVE SampleLoop(_, _, _, _)
SampleLoop(fs, current, end, step) ==
    IF current < end
    THEN SampleLoop(Append(fs, current), current + step, end, step)
    ELSE fs

\* The end frame pushed whatever the last frame is.
PushEndAlways(fs, end) == Append(fs, end)

\* if (frames[frames.length - 1] !== endFrame) frames.push(endFrame)
PushEnd(fs, end) == IF fs[Len(fs)] # end THEN Append(fs, end) ELSE fs

getFrameSamples(start, end, step) ==
    PushEnd(SampleLoop(<<start>>, start + step, end, step), end)

InitSamples ==
    /\ pc = "sample"
    /\ MainIdle
    /\ RtzrIdle /\ ScenesIdle /\ DescribeIdle
    /\ startFrame \in 0..MaxFrame
    /\ endFrame \in 0..MaxFrame
    /\ interval \in 1..MaxInterval
    /\ frames = <<>>

\* A call of getFrameSamples(startFrame, endFrame, interval).
Sample ==
    /\ pc = "sample"
    /\ frames' = getFrameSamples(startFrame, endFrame, interval)
    /\ pc' = "sampled"
    /\ UNCHANGED <<startFrame, endFrame, interval, notSamples>>

SpecSamples == InitSamples /\ [][Sample]_vars

---------------------------------------------------------------------------
(* C36: the frames sampled from a shot *)

\* C36: for startFrame <= endFrame and interval >= 1 the list returned is
\* strictly increasing, begins with startFrame, ends with endFrame, every
\* gap but the last equals the interval and the last gap is at most the
\* interval.
C36_SamplesSpanShot ==
    (pc = "sampled" /\ startFrame <= endFrame /\ interval >= 1) =>
       /\ Len(frames) >= 1
       /\ frames[1] = startFrame
       /\ frames[Len(frames)] = endFrame
       /\ \A n \in 1..(Len(frames) - 1) : frames[n] < frames[n + 1]
       /\ \A n \in 1..(Len(frames) - 2) : frames[n + 1] - frames[n] = interval
       /\ Len(frames) >= 2 =>
             frames[Len(frames)] - frames[Len(frames) - 1] <= interval

\* A shot whose length is a multiple of the interval, sampled in at least
\* three frames: the stepping arrives exactly at the end frame.
C36_Witness ==
    /\ pc = "sampled"
    /\ startFrame < endFrame
    /\ interval >= 2
    /\ (endFrame - startFrame) % interval = 0
    /\ Len(frames) >= 3

\* A shot of a single frame is sampled once.
C36_SingleFrame ==
    (pc = "sampled" /\ startFrame = endFrame) => frames = <<startFrame>>

---------------------------------------------------------------------------
(* describe.ts: describeShot and the batch loop of main *)

MaxShots == 3
MaxBatchSize == 2

\* const BATCH_SIZE = 5
BATCH_SIZE == 5

\* The description of a shot whose describing failed (the source's Korean
\* for "generation failed").
GenerationFailed == "generation failed"

\* What the model call comes to: a description, an empty response.text, a
\* text that JSON.parse or the schema rejects, a rejected call.
ModelOutcomes == {"ok", "empty", "unparsable", "error"}

\* The shots of final.json: n shots of 20 frames each.
ShotsOf(n) ==
    [k \in 1..n |-> Shot(20 * (k - 1), 20 * k - 1, Sec(k - 1), Sec(k))]

\* --batch <n>: the sizes tried, and the default.
BatchSizes == (1..MaxBatchSize) \cup {BATCH_SIZE}

\* A describeShot call that has not begun.
NoCall == [state |-> "idle", outcome |-> "none", description |-> "", nth |-> 0]

\* readFrame succeeds for every frame getFramesForShot asks for.
FramesReadable(shot, present) ==
    LET frameNums == getFrameSamples(shot.start_frame, shot.end_frame, FRAME_INTERVAL)
    IN  \A n \in 1..Len(frameNums) : frameNums[n] \in present

\* What describeShot returns for an outcome of the model call.
DescriptionFor(outcome) ==
    IF outcome = "ok" THEN "scene" ELSE GenerationFailed

\* finalData.shots.slice(i, i + batchSize), by position
Batch(start, size, all) ==
    {k \in 1..Len(all) : start < k /\ k <= start + size}

InFlightCalls == {k \in 1..Len(calls) : calls[k].state \in {"frames", "model"}}
DoneCalls(b) == {k \in b : calls[k].state = "fulfilled"}

\* Promise.all settles as soon as one call of the batch is done.
BatchSettledOnFirst(b) ==
    \/ \E k \in b : calls[k].state = "rejected"
    \/ \E k \in b : calls[k].state = "fulfilled"

\* Promise.all(batch.map(...)) settles: one call rejected, or all fulfilled.
BatchSettled(b) ==
    \/ \E k \in b : calls[k].state = "rejected"
    \/ \A k \in b : calls[k].state = "fulfilled"

\* batchResults: { ...shot, description } in the order of the batch
RECURSIVE BatchResults(_, _)
BatchResults(from, to) ==
    IF from > to THEN <<>>
    ELSE <<[shot |-> shots[from], description |-> calls[from].description]>>
         \o BatchResults(from + 1, to)

InitDescribe ==
    /\ pc = "describe"
    /\ MainIdle
    /\ RtzrIdle /\ SamplesIdle
    /\ transcriptionWords = <<>>
    /\ sceneIdx = 0
    /\ sceneWords = <<>>
    /\ groups = <<>>
    /\ sceneLines = <<>>
    /\ \E n \in 0..MaxShots :
          /\ shots = ShotsOf(n)
          /\ calls = [k \in 1..n |-> NoCall]
          /\ frameFiles \in {0..(20 * n - 1), 0..(20 * n - 2)}
    /\ batchSize \in BatchSizes
    /\ batchStart = 0
    /\ shotsWithDescriptions = <<>>
    /\ describedJson = <<>>

\* The head of a turn of the batch loop: every describeShot of the batch is
\* called and runs up to its first await.
StartBatch ==
    /\ pc = "describe"
    /\ batchStart < Len(shots)
    /\ calls' = [k \in 1..Len(calls) |->
                    IF k \in Batch(batchStart, batchSize, shots)
                    THEN [calls[k] EXCEPT !.state = "frames"]
                    ELSE calls[k]]
    /\ pc' = "batch"
    /\ UNCHANGED <<shots, batchSize, batchStart, frameFiles,
                   shotsWithDescriptions, describedJson, notDescribe>>

\* describeShot of shot k: getFramesForShot settles; with the frames read
\* the model is called, with a frame that cannot be read the call rejects.
FramesRead(k) ==
    /\ pc = "batch"
    /\ calls[k].state = "frames"
    /\ calls' = [calls EXCEPT ![k] =
                    IF FramesReadable(shots[k], frameFiles)
                    THEN [@ EXCEPT !.state = "model"]
                    ELSE [@ EXCEPT !.state = "rejected", !.outcome = "frames",
                                   !.nth = Cardinality(DoneCalls(1..Len(calls))) + 1]]
    /\ UNCHANGED <<pc, shots, batchSize, batchStart, frameFiles,
                   shotsWithDescriptions, describedJson, notDescribe>>

\* describeShot of shot k: the model call settles and the call returns.
ModelAnswers(k) ==
    /\ pc = "batch"
    /\ calls[k].state = "model"
    /\ \E outcome \in ModelOutcomes :
          calls' = [calls EXCEPT ![k] =
                       [state |-> "fulfilled", outcome |-> outcome,
                        description |-> DescriptionFor(outcome),
                        nth |-> Cardinality(DoneCalls(1..Len(calls))) + 1]]
    /\ UNCHANGED <<pc, shots, batchSize, batchStart, frameFiles,
                   shotsWithDescriptions, describedJson, notDescribe>>

\* await Promise.all(...) of the batch, the push of its results and
\* i += batchSize; a rejection leaves main and main().catch exits.
JoinBatch ==
    /\ pc = "batch"
    /\ LET b == Batch(batchStart, batchSize, shots)
           last == CHOOSE k \in b : \A m \in b : m <= k
       IN  /\ BatchSettled(b)
           /\ IF \E k \in b : calls[k].state = "rejected"
              THEN /\ pc' = "aborted"
                   /\ UNCHANGED <<batchStart, shotsWithDescriptions>>
              ELSE /\ shotsWithDescriptions'
                        = shotsWithDescriptions \o BatchResults(batchStart + 1, last)
                   /\ batchStart' = batchStart + batchSize
                   /\ pc' = "describe"
    /\ UNCHANGED <<shots, batchSize, frameFiles, calls, describedJson,
                   notDescribe>>

\* After the loop: the output built from shotsWithDescriptions and written.
WriteDescribed ==
    /\ pc = "describe"
    /\ batchStart >= Len(shots)
    /\ describedJson' = shotsWithDescriptions
    /\ pc' = "described"
    /\ UNCHANGED <<shots, batchSize, batchStart, frameFiles, calls,
                   shotsWithDescriptions, notDescribe>>

NextDescribe ==
    \/ StartBatch
    \/ \E k \in 1..Len(calls) : FramesRead(k)
    \/ \E k \in 1..Len(calls) : ModelAnswers(k)
    \/ JoinBatch
    \/ WriteDescribed

SpecDescribe == InitDescribe /\ [][NextDescribe]_vars

---------------------------------------------------------------------------
(* C37: batches of describeShot calls *)

\* The batch a shot falls in, counted from 0.
BatchNo(k) == (k - 1) \div batchSize

Begun(k) == calls[k].state # "idle"
Ended(k) == calls[k].state \in {"fulfilled", "rejected"}

---------------------------------------------------------------------------
(* C38: a shot whose describing fails *)

\* The describing of shot k failed: a frame could not be read, or the
\* model call gave no usable description.
DescribingFailed(k) == calls[k].outcome \in {"frames", "empty", "unparsable", "error"}

\* C38: a failure while describing one shot never aborts the job, and in
\* the output that shot has the description of a failed generation while
\* the other shots keep the descriptions their calls returned.
C38_FailureIsContained ==
    /\ pc # "aborted"
    /\ pc = "described" =>
          \A k \in 1..Len(shots) :
             describedJson[k].description
                = IF DescribingFailed(k) THEN GenerationFailed ELSE "scene"

\* The same for the failures of the model call: they never abort the job;
\* the job is aborted only by a frame that cannot be read.
ModelFailuresContained ==
    /\ pc = "aborted" => \E k \in 1..Len(calls) : calls[k].outcome = "frames"
    /\ pc = "described" =>
          \A k \in 1..Len(shots) :
             describedJson[k].description
                = IF DescribingFailed(k) THEN GenerationFailed ELSE "scene"

====
